---- MODULE Spec2Model ----
(***************************************************************************)
(* Model of the IVX text-to-flowchart compiler: the segmenter and grammar  *)
(* resolver (src/src/grammar.ts), the graph builder (src/src/valid.ts),    *)
(* the parser driver parseivx (src/unnamed/part_000) and the arity         *)
(* validator validNodeIO (src/src/extension.ts).                           *)
(*                                                                         *)
(* Texts, codes, comments, labels and meta annotations are strings, and    *)
(* the string functions of the source (trim, split, includes, ...) are     *)
(* computed character by character.  A reference to a Node object is the   *)
(* position of that object in the node list (objects are only ever         *)
(* appended to it), so that ids are data read from the node, as in the     *)
(* source.  A sequence of statements of the source is a chain of operator  *)
(* applications, each taking the value the previous one produced.          *)
(***************************************************************************)
EXTENDS Integers, Sequences, FiniteSets, TLC

\* ------------------------------------------------------------------ bounds
\* Number of segments of a document that is built piece by piece.
MaxSegs == 3
\* Number of parseivx invocations followed in the repeated-invocation
\* specification.
MaxRuns == 3

\* null / undefined of a numeric or reference slot
Null == 0 - 1

\* ------------------------------------------------------------ string helpers
Ch(s, k) == SubSeq(s, k, k)

IsBlankCh(c) == c \in {" ", "\t"}

RECURSIVE TrimStart(_)
\* String.prototype.trimStart
TrimStart(s) ==
  IF s = "" THEN ""
  ELSE IF IsBlankCh(Ch(s, 1)) THEN TrimStart(Tail(s)) ELSE s

RECURSIVE TrimEnd(_)
\* String.prototype.trimEnd
TrimEnd(s) ==
  IF s = "" THEN ""
  ELSE IF IsBlankCh(Ch(s, Len(s))) THEN TrimEnd(SubSeq(s, 1, Len(s) - 1)) ELSE s

\* String.prototype.trim
Trim(s) == TrimStart(TrimEnd(s))

\* String.prototype.includes
Includes(s, sub) ==
  \E k \in 0..(Len(s) - Len(sub)) : SubSeq(s, k + 1, k + Len(sub)) = sub

\* String.prototype.startsWith
StartsWith(s, pre) == Len(s) >= Len(pre) /\ SubSeq(s, 1, Len(pre)) = pre

RECURSIVE SplitOn(_, _, _)
\* String.prototype.split on a set of one-character separators: the pieces
\* between separators, empty pieces kept.  cur is the piece being read.
SplitOn(s, seps, cur) ==
  IF s = "" THEN <<cur>>
  ELSE IF Ch(s, 1) \in seps THEN <<cur>> \o SplitOn(Tail(s), seps, "")
  ELSE SplitOn(Tail(s), seps, cur \o Ch(s, 1))

RECURSIVE SplitWS(_, _)
\* trimmed.split(/\s+/) for a trimmed, non-empty string: runs of blanks
\* separate the tokens.
SplitWS(s, cur) ==
  IF s = "" THEN <<cur>>
  ELSE IF IsBlankCh(Ch(s, 1)) THEN <<cur>> \o SplitWS(TrimStart(s), "")
  ELSE SplitWS(Tail(s), cur \o Ch(s, 1))

RECURSIVE Join(_, _)
\* Array.prototype.join
Join(seq, sep) ==
  IF seq = <<>> THEN ""
  ELSE IF Len(seq) = 1 THEN seq[1]
  ELSE seq[1] \o sep \o Join(Tail(seq), sep)

RECURSIVE SelectStr(_)
\* .filter(Boolean) on an array of strings
SelectStr(seq) ==
  IF seq = <<>> THEN <<>>
  ELSE IF seq[1] = "" THEN SelectStr(Tail(seq))
  ELSE <<seq[1]>> \o SelectStr(Tail(seq))

Last(seq) == seq[Len(seq)]

\* --------------------------------------------------------------- grammar.ts
SPEC_KEYS == {"else", "then"}
NODE_KEYS == {"dec", "ii", "end", "do", "fun", "im", "ex"}
INLINE_KEYS == {"if", "of", "loop", "next"}

normalizeIvxToken(t) == IF StartsWith(t, "@") THEN Tail(t) ELSE t

isElseOrThen(s) == s = "else" \/ s = "then"

\* .map((label) => label.trim())
TrimAll(seq) == [k \in 1..Len(seq) |-> Trim(seq[k])]

\* text.split(/\s*,\s*/): the pieces between commas, the blanks around a
\* comma dropped; the blanks left at the two ends go with the trim that follows
splitDecisionLabels(text) == SelectStr(TrimAll(SplitOn(text, {","}, "")))

RECURSIVE ScanCode(_, _, _, _)
\* splitCodeAndComment: the loop over the characters of raw; code is the
\* code read so far, inSingle / inDouble the quote toggles.
ScanCode(raw, code, inSingle, inDouble) ==
  IF raw = "" THEN [code |-> code, comment |-> ""]
  ELSE LET ch == Ch(raw, 1) IN
    IF ch = "'" /\ ~inDouble
      THEN ScanCode(Tail(raw), code \o ch, ~inSingle, inDouble)
    ELSE IF ch = "\"" /\ ~inSingle
      THEN ScanCode(Tail(raw), code \o ch, inSingle, ~inDouble)
    ELSE IF ch = "#" /\ ~inSingle /\ ~inDouble
      THEN [code |-> code, comment |-> Tail(raw)]
    ELSE ScanCode(Tail(raw), code \o ch, inSingle, inDouble)

splitCodeAndComment(raw) == ScanCode(raw, "", FALSE, FALSE)

RECURSIVE IndentScan(_, _, _)
\* computeIndent: the loop, with the running indent and spaceCount.
IndentScan(s, indent, spaceCount) ==
  IF s = "" THEN indent
  ELSE IF Ch(s, 1) = "\t" THEN IndentScan(Tail(s), indent + 1, 0)
  ELSE IF Ch(s, 1) = " "
    THEN IF spaceCount + 1 = 4
           THEN IndentScan(Tail(s), indent + 1, 0)
           ELSE IndentScan(Tail(s), indent, spaceCount + 1)
  ELSE IndentScan(Tail(s), indent, spaceCount)

computeIndent(indentString) == IndentScan(indentString, 0, 0)

\* raw.match(/^([ \t]*)/)[1]: the leading run of spaces and tabs
LeadingBlanks(s) == SubSeq(s, 1, Len(s) - Len(TrimStart(s)))

\* The body of the inner forEach of collectSegments for one piece of a line:
\* no segment for a blank piece.
NewSegment(lineIndex, segIndex, indent, raw, cc) ==
  [physicalLine |-> lineIndex, segmentIndex |-> segIndex, indent |-> indent,
   raw |-> raw, code |-> cc.code, comment |-> cc.comment]

SegmentOf(segText, lineIndex, segIndex) ==
  IF TrimStart(segText) = "" THEN <<>>
  ELSE <<NewSegment(lineIndex, segIndex, computeIndent(LeadingBlanks(segText)),
                    TrimStart(segText), splitCodeAndComment(TrimStart(segText)))>>

RECURSIVE SegmentsOfLine(_, _, _)
SegmentsOfLine(pieces, lineIndex, segIndex) ==
  IF pieces = <<>> THEN <<>>
  ELSE SegmentOf(pieces[1], lineIndex, segIndex)
         \o SegmentsOfLine(Tail(pieces), lineIndex, segIndex + 1)

RECURSIVE SegmentsOfLines(_, _)
SegmentsOfLines(lines, lineIndex) ==
  IF lines = <<>> THEN <<>>
  ELSE SegmentsOfLine(SplitOn(lines[1], {":"}, ""), lineIndex, 0)
         \o SegmentsOfLines(Tail(lines), lineIndex + 1)

collectSegments(text) == SegmentsOfLines(SplitOn(text, {"\n"}, ""), 0)

RECURSIVE UserTokens(_)
\* the tokens of the tail of a segment that are not inline keys
UserTokens(tokens) ==
  IF tokens = <<>> THEN <<>>
  ELSE IF normalizeIvxToken(tokens[1]) \in INLINE_KEYS
    THEN UserTokens(Tail(tokens))
    ELSE <<tokens[1]>> \o UserTokens(Tail(tokens))

RECURSIVE LineKeys(_)
\* the inline keys of the tail of a segment, in order
LineKeys(tokens) ==
  IF tokens = <<>> THEN <<>>
  ELSE IF normalizeIvxToken(tokens[1]) \in INLINE_KEYS
    THEN <<normalizeIvxToken(tokens[1])>> \o LineKeys(Tail(tokens))
    ELSE LineKeys(Tail(tokens))

NoGram == [none |-> TRUE]

Gram(speckey, nodekey, linekey, trimmedCode) ==
  [none |-> FALSE, speckey |-> speckey, nodekey |-> nodekey,
   linekey |-> linekey, trimmedCode |-> trimmedCode]

\* the tail of SegGram: the inline keys and the user text of tokens[i..]
GramRest(tokens, i, speckey, nodekey) ==
  Gram(speckey, nodekey,
       LineKeys(SubSeq(tokens, i + 1, Len(tokens))),
       Trim(Join(UserTokens(SubSeq(tokens, i + 1, Len(tokens))), " ")))

\* the third check of SegGram: a node key at tokens[i]
GramNodeKey(tokens, i, speckey, nodekey) ==
  IF i < Len(tokens) /\ normalizeIvxToken(tokens[i + 1]) \in NODE_KEYS
    THEN GramRest(tokens, i + 1, speckey, normalizeIvxToken(tokens[i + 1]))
    ELSE GramRest(tokens, i, speckey, nodekey)

\* the second check of SegGram: a spec key at tokens[i]
GramSpecKey(tokens, i, speckey, nodekey) ==
  IF i < Len(tokens) /\ normalizeIvxToken(tokens[i + 1]) \in SPEC_KEYS
    THEN GramNodeKey(tokens, i + 1, normalizeIvxToken(tokens[i + 1]), nodekey)
    ELSE GramNodeKey(tokens, i, speckey, nodekey)

\* the first check of SegGram, on the normalized first token norm0
GramFirst(tokens, norm0) ==
  LET collapsedBang == norm0 = "fun!" \/ norm0 = "fun!{"
      first == IF collapsedBang THEN "fun" ELSE norm0
  IN IF first \in SPEC_KEYS THEN GramSpecKey(tokens, 1, first, "")
     ELSE IF first \in NODE_KEYS
       THEN GramSpecKey(IF collapsedBang
                          THEN <<tokens[1], "!">> \o Tail(tokens) ELSE tokens,
                        1, "", first)
     ELSE GramSpecKey(tokens, 0, "", "")

GramOfTokens(tokens) == GramFirst(tokens, normalizeIvxToken(tokens[1]))

\* /^\\+$/.test(trimmed), for a non-empty string
OnlyBackslashes(trimmed) == \A k \in 1..Len(trimmed) : Ch(trimmed, k) = "\\"

GramOfTrimmed(trimmed) ==
  IF trimmed = "" \/ OnlyBackslashes(trimmed) THEN NoGram
  ELSE GramOfTokens(SplitWS(trimmed, ""))

\* SegGram: NoGram for a segment that is no statement, else the grammar.
\* "" stands for a null speckey or nodekey.
SegGram(seg) == GramOfTrimmed(Trim(seg.code))

\* ----------------------------------------------------------------- valid.ts
\* An edge label is <<>> when absent and <<l>> when present.
NoLabel == <<>>

LabelOrEmpty(label) == IF label = <<>> THEN "" ELSE label[1]

NewEdge(from, to, label) == [from |-> from, to |-> to, label |-> label]

isNonSentinel(n) == n.kind # "Start" /\ n.kind # "End"

\* ctx.branchIndent is Null while unset; ctx.header is a NodeRef
inDecisionRange(ctx, seg) ==
  seg.indent >= (IF ctx.branchIndent # Null THEN ctx.branchIndent
                 ELSE ctx.header.indent)

hasEdge(edgeList, from, to, label) ==
  \E k \in 1..Len(edgeList) :
    /\ edgeList[k].from = from
    /\ edgeList[k].to = to
    /\ LabelOrEmpty(edgeList[k].label) = LabelOrEmpty(label)

\* edges.some((e) => e.from === from && e.to === to)
hasEdgeAnyLabel(edgeList, from, to) ==
  \E k \in 1..Len(edgeList) : edgeList[k].from = from /\ edgeList[k].to = to

\* edges.some((e) => e.from === from)
hasOutEdge(edgeList, from) == \E k \in 1..Len(edgeList) : edgeList[k].from = from

\* appendMeta on the node at position pos of the node list
appendMeta(S, pos, extra) ==
  [S EXCEPT !.nodes[pos].meta = (IF @ # "" THEN @ \o " " ELSE "") \o extra]

\* nodes.findIndex((n) => n.id === id), as a position from 1; 0 when absent
FindIndexById(nodeList, id) ==
  IF \E k \in 1..Len(nodeList) : nodeList[k].id = id
    THEN CHOOSE k \in 1..Len(nodeList) :
           nodeList[k].id = id /\ \A j \in 1..(k - 1) : nodeList[j].id # id
    ELSE 0

\* the greatest position below `below` that holds a non-sentinel node, or Null
LastNonSentinelBelow(nodeList, below) ==
  IF \E k \in 1..(below - 1) : isNonSentinel(nodeList[k])
    THEN CHOOSE k \in 1..(below - 1) :
           /\ isNonSentinel(nodeList[k])
           /\ \A j \in (k + 1)..(below - 1) : ~isNonSentinel(nodeList[j])
    ELSE Null

\* the scan of findPrevSequentialCandidate below index idx
PrevCandidateBelow(nodeList, idx) ==
  IF idx <= 1 THEN Null ELSE LastNonSentinelBelow(nodeList, idx)

\* startPos is the position of the object passed as startNode
findPrevSequentialCandidate(nodeList, startPos) ==
  PrevCandidateBelow(nodeList, FindIndexById(nodeList, nodeList[startPos].id))

findLastNonSentinel(nodeList) == LastNonSentinelBelow(nodeList, Len(nodeList) + 1)

isLoopOrNextMeta(meta) ==
  Includes(meta, "inline-loop") \/ Includes(meta, "inline-next")

\* pos may be Null
isLoopOrNextNode(nodeList, pos) ==
  IF pos = Null THEN FALSE ELSE isLoopOrNextMeta(nodeList[pos].meta)

IsLaterConnector(nodeList, k, pos) ==
  nodeList[k].kind = "Connector" /\ nodeList[k].line > nodeList[pos].line

\* the first Connector, in list order, among those of least line above the
\* line of the node at pos; Null when there is none
\* a search that takes the farthest later connector instead of the nearest
findNextConnector_Farthest(nodeList, pos) ==
  IF \E k \in 1..Len(nodeList) : IsLaterConnector(nodeList, k, pos)
    THEN CHOOSE k \in 1..Len(nodeList) :
           /\ IsLaterConnector(nodeList, k, pos)
           /\ \A j \in 1..Len(nodeList) :
                IsLaterConnector(nodeList, j, pos) =>
                  nodeList[j].line <= nodeList[k].line
    ELSE Null

findNextConnector(nodeList, pos) ==
  IF \E k \in 1..Len(nodeList) : IsLaterConnector(nodeList, k, pos)
    THEN CHOOSE k \in 1..Len(nodeList) :
           /\ IsLaterConnector(nodeList, k, pos)
           /\ \A j \in 1..Len(nodeList) :
                IsLaterConnector(nodeList, j, pos) =>
                  \/ nodeList[k].line < nodeList[j].line
                  \/ (nodeList[k].line = nodeList[j].line /\ k <= j)
    ELSE Null

\* Position of the Start node object (GraphBuilder.startNode).
StartPos == 1

\* new GraphBuilder(): the field initialisers and the constructor.
NewGraphBuilder ==
  [nodes |-> <<[id |-> 0, kind |-> "Start", line |-> 0, segmentIndex |-> 0,
                indent |-> 0, text |-> "", meta |-> "implicit start"]>>,
   edges |-> <<>>,
   gbEndNodeId |-> Null,
   nextId |-> 1,
   lastExecutableNode |-> Null,
   lastConnectorLikeNode |-> Null,
   pendingNextNodes |-> <<>>]

\* pushEdge without its hasEdge test
pushEdge_NoDedupe(S, edge) == [S EXCEPT !.edges = Append(@, edge)]

pushEdge(S, edge) ==
  IF hasEdge(S.edges, edge.from, edge.to, edge.label) THEN S
  ELSE [S EXCEPT !.edges = Append(@, edge)]

\* pushEdge({ from: a.id, to: b.id }) for the nodes at two positions
pushEdgeBetween(S, fromPos, toPos) ==
  pushEdge(S, NewEdge(S.nodes[fromPos].id, S.nodes[toPos].id, NoLabel))

\* makeNode with this.nextId in place of this.nextId++
makeNode_SameId(S, kind, seg, nodeText) ==
  [S EXCEPT
     !.nodes = Append(@, [id |-> S.nextId, kind |-> kind,
                          line |-> seg.physicalLine,
                          segmentIndex |-> seg.segmentIndex,
                          indent |-> seg.indent,
                          text |-> Trim(nodeText),
                          meta |-> Trim(seg.comment)])]

\* The new node is at position Len(S.nodes) + 1 of the result.
makeNode(S, kind, seg, nodeText) ==
  [S EXCEPT
     !.nodes = Append(@, [id |-> S.nextId, kind |-> kind,
                          line |-> seg.physicalLine,
                          segmentIndex |-> seg.segmentIndex,
                          indent |-> seg.indent,
                          text |-> Trim(nodeText),
                          meta |-> Trim(seg.comment)]),
     !.nextId = @ + 1]

InSeq(seq, x) == \E k \in 1..Len(seq) : seq[k] = x

\* finalizeNode, the loop-back part
finalizeLoop(S, pos, gram) ==
  IF InSeq(gram.linekey, "loop") /\ S.lastConnectorLikeNode # Null
    THEN appendMeta(
           IF ~hasEdge(S.edges, S.nodes[pos].id,
                       S.nodes[S.lastConnectorLikeNode].id, NoLabel)
             THEN pushEdgeBetween(S, pos, S.lastConnectorLikeNode)
             ELSE S,
           pos, "inline-loop")
    ELSE S

\* finalizeNode, the forward-jump part
finalizeNext(S, pos, gram) ==
  IF InSeq(gram.linekey, "next")
    THEN appendMeta([S EXCEPT !.pendingNextNodes = Append(@, pos)],
                    pos, "inline-next")
    ELSE S

finalizeNode(S, pos, gram) == finalizeNext(finalizeLoop(S, pos, gram), pos, gram)

\* wireSequential: this.lastExecutableNode || this.startNode
FromCursor(S) ==
  IF S.lastExecutableNode # Null THEN S.lastExecutableNode ELSE StartPos

StartAlreadyHasEdge(S) == hasOutEdge(S.edges, S.nodes[StartPos].id)

\* wireSequential: the return taken when Start has its edge and the list
\* holds no non-sentinel node
NoPredecessor(S) ==
  /\ FromCursor(S) = StartPos
  /\ StartAlreadyHasEdge(S)
  /\ findLastNonSentinel(S.nodes) = Null

FromAfterStart(S, from) ==
  IF from = StartPos /\ StartAlreadyHasEdge(S)
    THEN findLastNonSentinel(S.nodes) ELSE from

FromAfterTag(S, from) ==
  IF isLoopOrNextNode(S.nodes, from)
    THEN findPrevSequentialCandidate(S.nodes, from) ELSE from

FromAfterDecision(S, from) ==
  IF from # Null /\ S.nodes[from].kind = "Decision"
    THEN findPrevSequentialCandidate(S.nodes, from) ELSE from

\* the predecessor wireSequential settles on: a position, or Null
SequentialFrom(S) ==
  FromAfterDecision(S, FromAfterTag(S, FromAfterStart(S, FromCursor(S))))

AdvanceCursor(S, to, updateLast) ==
  IF updateLast /\ ~isLoopOrNextNode(S.nodes, to)
    THEN [S EXCEPT !.lastExecutableNode = to] ELSE S

WireFrom(S, to, updateLast, from) ==
  AdvanceCursor(IF S.nodes[to].kind = "Connector" \/ from = Null THEN S
                ELSE pushEdgeBetween(S, from, to),
                to, updateLast)

wireSequential(S, to, updateLast) ==
  IF NoPredecessor(S) THEN S ELSE WireFrom(S, to, updateLast, SequentialFrom(S))

\* The new node is at position Len(S.nodes) + 1 of the result.

\* createImplicitEnd with kind 'Process' in place of 'End'
createImplicitEnd_AsProcess(S, line, segmentIndex, meta) ==
  [S EXCEPT
     !.nodes = Append(@, [id |-> S.nextId, kind |-> "Process", line |-> line,
                          segmentIndex |-> segmentIndex, indent |-> 0,
                          text |-> "", meta |-> meta]),
     !.nextId = @ + 1,
     !.gbEndNodeId = S.nextId]

createImplicitEnd(S, line, segmentIndex, meta) ==
  [S EXCEPT
     !.nodes = Append(@, [id |-> S.nextId, kind |-> "End", line |-> line,
                          segmentIndex |-> segmentIndex, indent |-> 0,
                          text |-> "", meta |-> meta]),
     !.nextId = @ + 1,
     !.gbEndNodeId = S.nextId]

\* the successors of the popped id that are not visited yet
Unvisited(succList, visited) == SelectSeq(succList, LAMBDA nxt : nxt \notin visited)

RECURSIVE canReachFeeder(_, _, _, _, _)
\* The while loop of canReachFeeder: stack is the explicit stack (top at the
\* end), visited the visited set, succs the successor lists in the window.
canReachFeeder(stack, visited, startId, feederIds, succs) ==
  IF stack = <<>> THEN FALSE
  ELSE IF Last(stack) \in visited
    THEN canReachFeeder(SubSeq(stack, 1, Len(stack) - 1), visited, startId,
                        feederIds, succs)
  ELSE IF Last(stack) # startId /\ Last(stack) \in feederIds THEN TRUE
  ELSE canReachFeeder(
         SubSeq(stack, 1, Len(stack) - 1)
           \o Unvisited(succs[Last(stack)], visited \cup {Last(stack)}),
         visited \cup {Last(stack)}, startId, feederIds, succs)

\* the loop without its deletions: every window node stays a feeder
PruneFeeders_None(window, feederIds, succs) == feederIds

RECURSIVE PruneFeeders(_, _, _)
\* The loop that deletes from feederIds every window node that reaches
\* another feeder; window is the rest of faninWindow (ids, in list order).
PruneFeeders(window, feederIds, succs) ==
  IF window = <<>> THEN feederIds
  ELSE IF window[1] \in feederIds
          /\ canReachFeeder(<<window[1]>>, {}, window[1], feederIds, succs)
    THEN PruneFeeders(Tail(window), feederIds \ {window[1]}, succs)
    ELSE PruneFeeders(Tail(window), feederIds, succs)

RECURSIVE PushFeederEdges(_, _, _, _)
\* The loop that adds feeder -> connector edges; window holds positions.
PushFeederEdges(S, window, feederIds, connPos) ==
  IF window = <<>> THEN S
  ELSE IF /\ ~isLoopOrNextMeta(S.nodes[window[1]].meta)
          /\ S.nodes[window[1]].id \in feederIds
          /\ ~hasEdge(S.edges, S.nodes[window[1]].id, S.nodes[connPos].id, NoLabel)
    THEN PushFeederEdges(pushEdgeBetween(S, window[1], connPos),
                         Tail(window), feederIds, connPos)
    ELSE PushFeederEdges(S, Tail(window), feederIds, connPos)

IsBoundary(n, line, indent) ==
  n.line = line /\ n.indent = indent /\ n.kind \in {"Decision", "Connector"}

\* The lower bound of the fan-in window: the greatest line below the
\* connector's that holds a Decision or Connector at its indent, else 0.
FaninStartLine(nodeList, conn) ==
  IF \E k \in 1..Len(nodeList) :
       nodeList[k].line < conn.line
         /\ IsBoundary(nodeList[k], nodeList[k].line, conn.indent)
    THEN nodeList[CHOOSE k \in 1..Len(nodeList) :
           /\ nodeList[k].line < conn.line
           /\ IsBoundary(nodeList[k], nodeList[k].line, conn.indent)
           /\ \A j \in 1..Len(nodeList) :
                (nodeList[j].line < conn.line
                   /\ IsBoundary(nodeList[j], nodeList[j].line, conn.indent))
                  => nodeList[j].line <= nodeList[k].line].line
    ELSE 0

InWindow(n, conn, startLine) ==
  /\ n.id # conn.id
  /\ isNonSentinel(n)
  /\ n.indent = conn.indent
  /\ n.line > startLine
  /\ n.line <= conn.line

WindowFrom(nodeList, conn, startLine) ==
  SelectSeq([k \in 1..Len(nodeList) |-> k],
            LAMBDA k : InWindow(nodeList[k], conn, startLine))

\* faninWindow, as the positions of its nodes in list order
FaninWindow(nodeList, conn) ==
  WindowFrom(nodeList, conn, FaninStartLine(nodeList, conn))

IdsAt(nodeList, positions) == [k \in 1..Len(positions) |-> nodeList[positions[k]].id]

IdSet(ids) == {ids[k] : k \in 1..Len(ids)}

TargetsOf(edgeList) == [k \in 1..Len(edgeList) |-> edgeList[k].to]

\* succsInWindow: for each window id, the targets of its edges inside the
\* window, in edge order
SuccsInWindow(edgeList, faninIds) ==
  [id \in faninIds |->
     TargetsOf(SelectSeq(edgeList,
       LAMBDA e : e.from = id /\ e.from \in faninIds /\ e.to \in faninIds))]

FeedConnector(S, connPos, window, windowIds) ==
  PushFeederEdges(S, window,
    PruneFeeders(windowIds, IdSet(windowIds),
                 SuccsInWindow(S.edges, IdSet(windowIds))),
    connPos)

IsNextAtIndent(n, conn) ==
  n.id # conn.id /\ isNonSentinel(n) /\ n.indent = conn.indent /\ n.line > conn.line

\* the last part of computeConnectorFanin: an outgoing edge for a connector
\* that has none
ConnectorFallback(S, connPos) ==
  IF /\ ~hasOutEdge(S.edges, S.nodes[connPos].id)
     /\ \E k \in 1..Len(S.nodes) : IsNextAtIndent(S.nodes[k], S.nodes[connPos])
    THEN pushEdgeBetween(S, connPos,
           CHOOSE k \in 1..Len(S.nodes) :
             /\ IsNextAtIndent(S.nodes[k], S.nodes[connPos])
             /\ \A j \in 1..(k - 1) : ~IsNextAtIndent(S.nodes[j], S.nodes[connPos]))
    ELSE S

FeedWindow(S, connPos, window) ==
  FeedConnector(S, connPos, window, IdsAt(S.nodes, window))

computeConnectorFanin(S, connPos) ==
  ConnectorFallback(
    FeedWindow(S, connPos, FaninWindow(S.nodes, S.nodes[connPos])), connPos)

\* ------------------------------------------------------- parser (parseivx)
\* A context's reference to its header Node: the position of the object and
\* the two fields read through it, neither of which is ever reassigned.
NodeRef(S, pos) ==
  [pos |-> pos, id |-> S.nodes[pos].id, indent |-> S.nodes[pos].indent]

\* A Map<number, Node> is the sequence of its <<key, value>> entries in
\* insertion order; the values are node positions.
MapHas(m, key) == \E k \in 1..Len(m) : m[k][1] = key

MapGet(m, key) ==
  IF MapHas(m, key) THEN m[CHOOSE k \in 1..Len(m) : m[k][1] = key][2] ELSE Null

MapSet(m, key, val) ==
  IF MapHas(m, key)
    THEN [k \in 1..Len(m) |-> IF m[k][1] = key THEN <<key, val>> ELSE m[k]]
    ELSE Append(m, <<key, val>>)

\* the locals of parseivx next to a fresh GraphBuilder
NewParse(gb) ==
  [nodes |-> gb.nodes, edges |-> gb.edges, gbEndNodeId |-> gb.gbEndNodeId,
   nextId |-> gb.nextId, lastExecutableNode |-> gb.lastExecutableNode,
   lastConnectorLikeNode |-> gb.lastConnectorLikeNode,
   pendingNextNodes |-> gb.pendingNextNodes,
   lastNode |-> StartPos, endNodeId |-> Null, currentBranchIndex |-> Null,
   decisionStack |-> <<>>, funStack |-> <<>>]

inFun(S) == S.funStack # <<>>

\* topFun.lastBodyNodeId ?? topFun.header.id
FunTailId(topFun) ==
  IF topFun.lastBodyNodeId # Null THEN topFun.lastBodyNodeId ELSE topFun.header.id

\* registerInFun: the edge from the running tail, fromIdx its position (0 when
\* no node has that id)
FunTailEdge(S, pos, fromId, fromIdx) ==
  IF fromIdx # 0 /\ ~isLoopOrNextMeta(S.nodes[fromIdx].meta)
    THEN pushEdge(S, NewEdge(fromId, S.nodes[pos].id, NoLabel)) ELSE S

\* registerInFun: the body list, the running tail and the membership tag
FunRecord(S, pos) ==
  appendMeta([S EXCEPT
                !.funStack[Len(S.funStack)].bodyNodeIds = Append(@, S.nodes[pos].id),
                !.funStack[Len(S.funStack)].lastBodyNodeId = S.nodes[pos].id],
             pos, "fun-body-of=" \o ToString(Last(S.funStack).header.id))

registerInFun(S, pos) ==
  IF ~inFun(S) THEN S
  ELSE FunRecord(
         FunTailEdge(S, pos, FunTailId(Last(S.funStack)),
                     FindIndexById(S.nodes, FunTailId(Last(S.funStack)))),
         pos)

SetLastNode(S, pos) == [S EXCEPT !.lastNode = pos]

RegisterUnless(S, pos, skipFunRegister) ==
  IF skipFunRegister THEN S ELSE registerInFun(S, pos)

\* The new node is at position Len(S.nodes) + 1 of the result.
createExecutableNode(S, kind, seg, nodeText, gram, skipFunRegister) ==
  RegisterUnless(
    SetLastNode(finalizeNode(makeNode(S, kind, seg, nodeText),
                             Len(S.nodes) + 1, gram),
                Len(S.nodes) + 1),
    Len(S.nodes) + 1, skipFunRegister)

NewNodePos(S) == Len(S.nodes) + 1

DecisionCutoff(ctx) ==
  IF ctx.branchIndent # Null THEN ctx.branchIndent ELSE ctx.header.indent

\* decisionStack.pop() with the branch index cleared
\* a pop that takes the oldest context instead of the top one
PopDecision_Bottom(S) ==
  [S EXCEPT !.decisionStack = Tail(@),
            !.currentBranchIndex = Null]

PopDecision(S) ==
  [S EXCEPT !.decisionStack = SubSeq(@, 1, Len(@) - 1),
            !.currentBranchIndex = Null]

\* the cursor after a pop at the decision's own level
\* a rewind that always goes to the header
RewindTo_Header(ctx) == ctx.header.pos

RewindTo(ctx) ==
  IF ctx.tails # <<>> THEN Last(ctx.tails)[2] ELSE ctx.header.pos

RECURSIVE popObsoleteDecisions(_, _, _)
popObsoleteDecisions(S, seg, speckey) ==
  IF S.decisionStack = <<>> THEN S
  ELSE IF seg.indent < DecisionCutoff(Last(S.decisionStack))
    THEN popObsoleteDecisions(PopDecision(S), seg, speckey)
  ELSE IF /\ seg.indent = DecisionCutoff(Last(S.decisionStack))
          /\ ~isElseOrThen(speckey)
          /\ Last(S.decisionStack).hasExplicitSpec
    THEN popObsoleteDecisions(
           [PopDecision(S) EXCEPT
              !.lastExecutableNode = RewindTo(Last(S.decisionStack))],
           seg, speckey)
  ELSE S

\* attachElseNodeToDecision taking ctx.labels[0] for every branch
BranchLabel_First(ctx, branchIndex) ==
  IF ctx.labels # <<>> THEN <<ctx.labels[1]>> ELSE NoLabel

\* the label attachElseNodeToDecision gives the edge of branch branchIndex;
\* ctx.labels is <<>> when absent (a label list that is present has two
\* entries or more)
BranchLabel(ctx, branchIndex) ==
  IF branchIndex < Len(ctx.labels) THEN <<ctx.labels[branchIndex + 1]>>
  ELSE NoLabel

\* ctx is the top of the decision stack at every call
attachElseNodeToDecision(S, node) ==
  LET d   == Len(S.decisionStack)
      ctx == S.decisionStack[d]
  IN [s |-> [pushEdge(S, NewEdge(ctx.header.id, S.nodes[node].id,
                                 BranchLabel(ctx, Len(ctx.branches))))
               EXCEPT !.decisionStack[d].branches = Append(@, node),
                      !.decisionStack[d].tails = MapSet(@, Len(ctx.branches), node),
                      !.decisionStack[d].hasExplicitSpec = TRUE],
      branchIndex |-> Len(ctx.branches),
      lastExecutableNode |-> node]

\* a branch index without the default to the last branch
ThenBranchIndex_NoDefault(ctx, curBranchIndex) == curBranchIndex

\* attachThenNodeToDecision: the branch index it settles on
ThenBranchIndex(ctx, curBranchIndex) ==
  IF curBranchIndex = Null /\ Len(ctx.branches) > 0
    THEN Len(ctx.branches) - 1 ELSE curBranchIndex

\* attachThenNodeToDecision: the tail of that branch, or Null
ThenTail(ctx, branchIndex) ==
  IF branchIndex # Null THEN MapGet(ctx.tails, branchIndex) ELSE Null

\* attachThenNodeToDecision: the result after the fallback wireSequential
ThenFallback(S) ==
  [s |-> S, branchIndex |-> Null, lastExecutableNode |-> S.lastExecutableNode]

ThenAttach(S, node, branchIndex, tail) ==
  IF tail # Null
    THEN [s |-> [pushEdgeBetween(S, tail, node)
                   EXCEPT !.decisionStack[Len(S.decisionStack)].tails =
                            MapSet(@, branchIndex, node),
                          !.decisionStack[Len(S.decisionStack)].hasExplicitSpec = TRUE],
          branchIndex |-> branchIndex,
          lastExecutableNode |-> node]
    ELSE ThenFallback(wireSequential(S, node, TRUE))

\* ctx is the top of the decision stack at every call
attachThenNodeToDecision(S, node, curBranchIndex) ==
  ThenAttach(S, node,
    ThenBranchIndex(Last(S.decisionStack), curBranchIndex),
    ThenTail(Last(S.decisionStack),
             ThenBranchIndex(Last(S.decisionStack), curBranchIndex)))

\* currentBranchIndex = res.branchIndex
TakeElse(res) == [res.s EXCEPT !.currentBranchIndex = res.branchIndex]

\* currentBranchIndex = res.branchIndex; gb.lastExecutableNode = res.lastExecutableNode
TakeThen(res) ==
  [res.s EXCEPT !.currentBranchIndex = res.branchIndex,
                !.lastExecutableNode = res.lastExecutableNode]

\* the attachment of a node to the top decision context by spec key
AttachBySpecKey(S, node, speckey) ==
  IF speckey = "else" THEN TakeElse(attachElseNodeToDecision(S, node))
  ELSE TakeThen(attachThenNodeToDecision(S, node, S.currentBranchIndex))

\* the test wireIntoDecisionIfAny makes before it attaches
CanAttach(S, seg, speckey) ==
  /\ S.decisionStack # <<>>
  /\ isElseOrThen(speckey)
  /\ inDecisionRange(Last(S.decisionStack), seg)

wireIntoDecisionIfAny(S, node, seg, speckey) ==
  IF CanAttach(S, seg, speckey)
    THEN [s |-> AttachBySpecKey(S, node, speckey), attached |-> TRUE]
    ELSE [s |-> S, attached |-> FALSE]

\* if (!inFun()) gb.wireSequential(node)
WireUnlessInFun(S, node) ==
  IF ~inFun(S) THEN wireSequential(S, node, TRUE) ELSE S

\* handleExecutableNode after wireIntoDecisionIfAny returned w
AfterAttachOrPop(w, node, seg, speckey) ==
  IF w.attached THEN w.s
  ELSE WireUnlessInFun(popObsoleteDecisions(w.s, seg, speckey), node)

handleExecutableNode(S, kind, seg, gram, trimmedCode, speckey) ==
  AfterAttachOrPop(
    wireIntoDecisionIfAny(
      createExecutableNode(S, kind, seg, trimmedCode, gram, FALSE),
      NewNodePos(S), seg, speckey),
    NewNodePos(S), seg, speckey)

\* a pin of the branch indent at column 0, whatever the segment's indent
PinBranchIndent_Column0(S, seg, speckey) ==
  IF speckey = "else" /\ Last(S.decisionStack).branchIndent = Null
    THEN [S EXCEPT !.decisionStack[Len(S.decisionStack)].branchIndent = 0]
    ELSE S

\* handleBareElseThen: ctx.branchIndent = seg.indent on the first branch-start
PinBranchIndent(S, seg, speckey) ==
  IF speckey = "else" /\ Last(S.decisionStack).branchIndent = Null
    THEN [S EXCEPT !.decisionStack[Len(S.decisionStack)].branchIndent = seg.indent]
    ELSE S

\* handleBareElseThen after wireIntoDecisionIfAny returned w
AfterAttach(w, node) == IF w.attached THEN w.s ELSE WireUnlessInFun(w.s, node)

\* handleBareElseThen with a decision context, after the branch indent
BareInDecision(S, seg, gram) ==
  IF seg.indent < Last(S.decisionStack).header.indent
    THEN handleExecutableNode(S, "Process", seg, gram, gram.trimmedCode,
                              gram.speckey)
    ELSE AfterAttach(
           wireIntoDecisionIfAny(
             createExecutableNode(S, "Process", seg, gram.trimmedCode, gram, FALSE),
             NewNodePos(S), seg, gram.speckey),
           NewNodePos(S))

\* handleBareElseThen after popObsoleteDecisions
BareAfterPop(S, seg, gram) ==
  IF S.decisionStack = <<>>
    THEN handleExecutableNode(S, "Process", seg, gram, gram.trimmedCode,
                              gram.speckey)
    ELSE BareInDecision(PinBranchIndent(S, seg, gram.speckey), seg, gram)

handleBareElseThen(S, seg, gram) ==
  BareAfterPop(popObsoleteDecisions(S, seg, gram.speckey), seg, gram)

\* /\}\s*$/.test(trimmedEnd)
EndsWithBrace(trimmedEnd) ==
  TrimEnd(trimmedEnd) # ""
    /\ Ch(TrimEnd(trimmedEnd), Len(TrimEnd(trimmedEnd))) = "}"

RECURSIVE JoinIds(_)
\* bodyNodeIds.join(',')
JoinIds(ids) ==
  IF ids = <<>> THEN ""
  ELSE IF Len(ids) = 1 THEN ToString(ids[1])
  ELSE ToString(ids[1]) \o "," \o JoinIds(Tail(ids))

\* closeFun: the footer edge and the cursor; footer is the footer's position
FooterWire(S, funCtx, footer) ==
  [pushEdge(appendMeta(S, footer, "fun-footer-of=" \o ToString(funCtx.header.id)),
            NewEdge(funCtx.lastBodyNodeId, S.nodes[footer].id, NoLabel))
     EXCEPT !.lastExecutableNode = footer]

\* closeFun for a context with a body: the header tag and the footer node
Footer(S, funCtx, seg, footerText) ==
  FooterWire(
    createExecutableNode(
      appendMeta(S, funCtx.header.pos,
                 "fun-body=[" \o JoinIds(funCtx.bodyNodeIds) \o "]"),
      "Process", seg, footerText, Gram("", "", <<>>, footerText), TRUE),
    funCtx, NewNodePos(S))

\* closeFun after funStack.pop() returned funCtx
\* a close that makes a footer whether or not the body is empty
CloseContext_AlwaysFooter(S, funCtx, seg) ==
  [Footer(S, funCtx, seg, Trim(TrimEnd(seg.code)))
     EXCEPT !.currentBranchIndex = Null]

CloseContext(S, funCtx, seg) ==
  [(IF funCtx.bodyNodeIds # <<>>
      THEN Footer(S, funCtx, seg, Trim(TrimEnd(seg.code))) ELSE S)
     EXCEPT !.currentBranchIndex = Null]

closeFun(S, seg) ==
  IF S.funStack = <<>> \/ ~EndsWithBrace(TrimEnd(seg.code))
    THEN [s |-> S, closed |-> FALSE]
    ELSE [s |-> CloseContext([S EXCEPT !.funStack = SubSeq(@, 1, Len(@) - 1)],
                             Last(S.funStack), seg),
          closed |-> TRUE]

RECURSIVE ResolvePendingNext(_, _)
\* the loop over pendingNextNodes at the end of parseivx
ResolvePendingNext(S, pending) ==
  IF pending = <<>> THEN S
  ELSE IF /\ findNextConnector(S.nodes, pending[1]) # Null
          /\ ~hasEdgeAnyLabel(S.edges, S.nodes[pending[1]].id,
                S.nodes[findNextConnector(S.nodes, pending[1])].id)
    THEN ResolvePendingNext(
           pushEdgeBetween(S, pending[1], findNextConnector(S.nodes, pending[1])),
           Tail(pending))
    ELSE ResolvePendingNext(S, Tail(pending))

\* nodes.filter(isNonSentinel), as positions in list order
NonStartEnd(nodeList) ==
  SelectSeq([k \in 1..Len(nodeList) |-> k], LAMBDA k : isNonSentinel(nodeList[k]))

\* the finalization without its Start edge
StartEdge_Never(S, nonStartEnd) == S

\* if (!startHasEdge && nonStartEnd.length > 0)
StartEdge(S, nonStartEnd) ==
  IF ~hasOutEdge(S.edges, S.nodes[StartPos].id) /\ Len(nonStartEnd) > 0
    THEN pushEdgeBetween(S, StartPos, nonStartEnd[1]) ELSE S

\* if (nonStartEnd.length >= 2) ...
StatementConnectorEdge(S, nonStartEnd) ==
  IF /\ Len(nonStartEnd) >= 2
     /\ S.nodes[nonStartEnd[2]].kind = "Connector"
     /\ ~hasEdgeAnyLabel(S.edges, S.nodes[nonStartEnd[1]].id,
                         S.nodes[nonStartEnd[2]].id)
    THEN pushEdgeBetween(S, nonStartEnd[1], nonStartEnd[2]) ELSE S

IsNotEnd(n) == n.kind # "End"

\* nodes.filter((n) => n.kind !== 'End'), as positions in list order
ExecutableNodes(nodeList) ==
  SelectSeq([k \in 1..Len(nodeList) |-> k], LAMBDA k : IsNotEnd(nodeList[k]))

\* a finalization that hangs the synthesized End on the Start node
Fallthrough_Start(S, executableNodes) ==
  [pos |-> StartPos, endLabel |-> "implicit end"]

\* the node the synthesized End hangs on, and its label
Fallthrough(S, executableNodes) ==
  IF Len(executableNodes) > 0
    THEN [pos |-> Last(executableNodes), endLabel |-> "implicit end"]
    ELSE [pos |-> StartPos, endLabel |-> "implicit end (empty doc)"]

\* the implicit End, its edge and endNodeId
SetEndNodeId(S, implicitEnd) == [S EXCEPT !.endNodeId = S.nodes[implicitEnd].id]

\* the finalization without the edge into the implicit End
ImplicitEnd_NoEdge(S, ft) ==
  SetEndNodeId(
    createImplicitEnd(S, S.nodes[ft.pos].line, S.nodes[ft.pos].segmentIndex,
                      ft.endLabel),
    NewNodePos(S))

ImplicitEnd(S, ft) ==
  SetEndNodeId(
    pushEdgeBetween(
      createImplicitEnd(S, S.nodes[ft.pos].line, S.nodes[ft.pos].segmentIndex,
                        ft.endLabel),
      ft.pos, NewNodePos(S)),
    NewNodePos(S))

FirstEdges(S, nonStartEnd) ==
  StatementConnectorEdge(StartEdge(S, nonStartEnd), nonStartEnd)

FinalizationAfterPending(S) ==
  ImplicitEnd(FirstEdges(S, NonStartEnd(S.nodes)),
              Fallthrough(S, ExecutableNodes(S.nodes)))

\* parseivx after its segment loop, up to the return
Finalization(S) == FinalizationAfterPending(ResolvePendingNext(S, S.pendingNextNodes))

\* --------------------------------------------------------------- validNodeIO
Infinity == Null

NODE_ARITY_RULES ==
  [Start     |-> [minIn |-> 0, maxIn |-> 0, minOut |-> 1, maxOut |-> 1],
   End       |-> [minIn |-> 1, maxIn |-> 1, minOut |-> 0, maxOut |-> 0],
   Process   |-> [minIn |-> 1, maxIn |-> 1, minOut |-> 1, maxOut |-> 1],
   Decision  |-> [minIn |-> 1, maxIn |-> Infinity, minOut |-> 2, maxOut |-> Infinity],
   Connector |-> [minIn |-> 1, maxIn |-> Infinity, minOut |-> 1, maxOut |-> 1],
   Input     |-> [minIn |-> 1, maxIn |-> 1, minOut |-> 1, maxOut |-> 1],
   Output    |-> [minIn |-> 1, maxIn |-> 1, minOut |-> 1, maxOut |-> 1]]

\* inDegree.get(id) || 0 and outDegree.get(id) || 0
InDegree(edgeList, id) == Cardinality({k \in 1..Len(edgeList) : edgeList[k].to = id})
OutDegree(edgeList, id) == Cardinality({k \in 1..Len(edgeList) : edgeList[k].from = id})

\* A message is the record of what its text states: the node (id, kind,
\* line), the direction, the count and the bound.
Message(node, dir, count, bound, n) ==
  [id |-> node.id, kind |-> node.kind, line |-> node.line + 1,
   dir |-> dir, count |-> count, expected |-> bound, n |-> n]

\* validNodeIO without its check of minIn
ArityMessages_NoMinIn(node, inCount, outCount, rules) ==
  (IF rules.maxIn # Infinity /\ inCount > rules.maxIn
     THEN <<Message(node, "inputs", inCount, "<=", rules.maxIn)>> ELSE <<>>)
  \o (IF outCount < rules.minOut
     THEN <<Message(node, "outputs", outCount, ">=", rules.minOut)>> ELSE <<>>)
  \o (IF rules.maxOut # Infinity /\ outCount > rules.maxOut
     THEN <<Message(node, "outputs", outCount, "<=", rules.maxOut)>> ELSE <<>>)

\* the four checks of validNodeIO on one node
ArityMessages(node, inCount, outCount, rules) ==
  (IF inCount < rules.minIn
     THEN <<Message(node, "inputs", inCount, ">=", rules.minIn)>> ELSE <<>>)
  \o (IF rules.maxIn # Infinity /\ inCount > rules.maxIn
     THEN <<Message(node, "inputs", inCount, "<=", rules.maxIn)>> ELSE <<>>)
  \o (IF outCount < rules.minOut
     THEN <<Message(node, "outputs", outCount, ">=", rules.minOut)>> ELSE <<>>)
  \o (IF rules.maxOut # Infinity /\ outCount > rules.maxOut
     THEN <<Message(node, "outputs", outCount, "<=", rules.maxOut)>> ELSE <<>>)

\* validNodeIO without its exemption of function-body nodes
IsExempt_Never(node) == FALSE

\* if (node.meta && node.meta.includes('fun-body-of=')) continue
IsExempt(node) == Includes(node.meta, "fun-body-of=")

\* the messages validNodeIO pushes for one node
NodeMessages(node, edgeList) ==
  IF IsExempt(node) THEN <<>>
  ELSE ArityMessages(node, InDegree(edgeList, node.id),
                     OutDegree(edgeList, node.id), NODE_ARITY_RULES[node.kind])

RECURSIVE validNodeIO(_, _)
validNodeIO(nodeList, edgeList) ==
  IF nodeList = <<>> THEN <<>>
  ELSE NodeMessages(nodeList[1], edgeList) \o validNodeIO(Tail(nodeList), edgeList)

\* -------------------------------------------------------------------- state
VARIABLES
  text,                  \* doc.getText(), as far as it is written
  segments,              \* collectSegments(text)
  i,                     \* number of segments the loop has handled
  pc,                    \* "loop" inside the segment loop, "done" after return
  nodes, edges, gbEndNodeId, nextId, lastExecutableNode, lastConnectorLikeNode,
  pendingNextNodes,      \* the fields of the GraphBuilder gb
  lastNode, endNodeId, currentBranchIndex, decisionStack, funStack,
                         \* the locals of parseivx
  returned               \* the graphs returned so far, with their texts

gbVars == <<nodes, edges, gbEndNodeId, nextId, lastExecutableNode,
            lastConnectorLikeNode, pendingNextNodes>>
localVars == <<lastNode, endNodeId, currentBranchIndex, decisionStack, funStack>>
vars == <<text, segments, i, pc, gbVars, localVars, returned>>

\* the builder and the locals as one value
St ==
  [nodes |-> nodes, edges |-> edges, gbEndNodeId |-> gbEndNodeId,
   nextId |-> nextId, lastExecutableNode |-> lastExecutableNode,
   lastConnectorLikeNode |-> lastConnectorLikeNode,
   pendingNextNodes |-> pendingNextNodes,
   lastNode |-> lastNode, endNodeId |-> endNodeId,
   currentBranchIndex |-> currentBranchIndex,
   decisionStack |-> decisionStack, funStack |-> funStack]

Commit(S) ==
  /\ nodes' = S.nodes
  /\ edges' = S.edges
  /\ gbEndNodeId' = S.gbEndNodeId
  /\ nextId' = S.nextId
  /\ lastExecutableNode' = S.lastExecutableNode
  /\ lastConnectorLikeNode' = S.lastConnectorLikeNode
  /\ pendingNextNodes' = S.pendingNextNodes
  /\ lastNode' = S.lastNode
  /\ endNodeId' = S.endNodeId
  /\ currentBranchIndex' = S.currentBranchIndex
  /\ decisionStack' = S.decisionStack
  /\ funStack' = S.funStack

\* ------------------------------------------------------------------ inputs
Tab == "\t"

\* The statements a document is written from, without indentation.
Statements ==
  {"do a", "dec c, d", "else b", "then t", "ii", "end", "im v next"}

\* The pieces a document is written from: the statements at indent 0 and 1,
\* and pieces whose indent plays no role.
Pieces ==
  Statements \cup {Tab \o st : st \in Statements}
    \cup {"fun f", "}", "# note", "\\"}

\* The documents given as a whole.
Scenario ==
  "do a\n: do b\n  dec c, d\n    else branch1\n    then b1b\n    else branch2\n  ii end1"

\* a decision without a label list inside a function, and its first branch
FunDecisionElse == "fun f\ndec x\nelse a"

\* a decision with two labels and three branches
ThreeBranches == "dec c, d\n\telse x\n\telse y\n\telse z"

\* malformed segments: a closing brace without a function, branch markers
\* without a decision, a loop-back without a connector, a forward jump
\* without a later connector, an end at a stray indentation
\* two functions and two decisions, nested, closed one after the other
Nested == "fun f\nfun g\n\tdec c, d\n\t\tdec e, f\n}\ndo a\n}"

\* an end on a branch, and a branch-continue segment after it
EndOnBranch == "dec c, d\nelse end\nthen t"

\* a connector after a chain of two statements below the first line
Chain == "do x\ndo a\ndo b\nii"

\* a connector after a connector and a loop-back statement on one line
LoopOnLine == "do x\nii:do a loop:ii"

\* a branch-marked statement dedented below the inner decision of two
DedentedElse ==
  "dec c, d\n\telse x\n\t\tdec e, f\n\t\t\telse y\n\telse do z"

\* a function closed while a branch of a decision in its body is current
BranchInFun == "fun f\ndec c, d\nelse b\n}"

\* two spec-keys at the head of a segment, and two node-keys around a spec-key
TwoKeys == "else then x\ndo else end y"

\* branch-continue segments with a node-key, after a branch start
ThenStatement == "dec c, d\nelse x\nthen do y\nthen im v"

\* a branch-continue segment after an end segment cleared the branch index
ThenAfterEnd == "dec c, d\nelse b\nend\nthen t"

Malformed == "}\nthen t\ndo w loop\nim v next\n\t\tend\nelse b"

Documents ==
  {"", Scenario, FunDecisionElse, ThreeBranches, Malformed, Nested,
   EndOnBranch, Chain, LoopOnLine, DedentedElse,
   BranchInFun, TwoKeys,
   ThenStatement, ThenAfterEnd}

\* The separators a piece is appended with: a piece starts the document or a
\* new line of it, or follows the last piece on its line.
Separators == IF text = "" THEN {"", "\n"} ELSE {":", "\n"}

\* ----------------------------------------------------------------- actions
\* The document grows by one piece while the loop waits for its next segment.
\* collectSegments splits lines before segments and segments before comments,
\* so the segments already handled are those of the longer text too.
WritePiece(sep, piece) ==
  /\ pc = "loop"
  /\ i = Len(segments)
  /\ Len(segments) < MaxSegs
  /\ text' = text \o sep \o piece
  /\ segments' = collectSegments(text \o sep \o piece)
  /\ UNCHANGED <<i, pc, gbVars, localVars, returned>>

Write == \E sep \in Separators, piece \in Pieces : WritePiece(sep, piece)

\* for (const seg of segments): the segment of this iteration
Seg == segments[i + 1]

\* the loop takes the next segment
TakeSegment ==
  /\ i' = i + 1
  /\ UNCHANGED <<text, segments, pc, returned>>

\* The branch of the loop body that handles a statement of grammar gram.
GramBranch(gram) ==
  IF gram.none THEN "skip"
  ELSE IF gram.nodekey = "fun" THEN "fun"
  ELSE IF isElseOrThen(gram.speckey) /\ gram.nodekey = "" THEN "bare"
  ELSE IF gram.nodekey = "end" THEN "end"
  ELSE IF gram.nodekey \in {"im", "ex"} THEN "io"
  ELSE IF gram.nodekey = "dec" THEN "dec"
  ELSE IF gram.nodekey = "ii" THEN "ii"
  ELSE "statement"

\* a dispatch in which a closing brace without an open function is handled
\* by no branch
Branch_BraceNeedsFun(S, seg) ==
  IF Trim(seg.code) = "" /\ Trim(seg.comment) # "" THEN "comment"
  ELSE IF closeFun(S, seg).closed THEN "closeFun"
  ELSE IF EndsWithBrace(TrimEnd(seg.code)) THEN "fault"
  ELSE GramBranch(SegGram(seg))

\* The branch of the loop body that handles seg in state S.
Branch(S, seg) ==
  IF Trim(seg.code) = "" /\ Trim(seg.comment) # "" THEN "comment"
  ELSE IF closeFun(S, seg).closed THEN "closeFun"
  ELSE GramBranch(SegGram(seg))

\* a comment handler that writes to the cursor's node instead of the last node
CommentOnly_OnCursor ==
  /\ pc = "loop" /\ i < Len(segments)
  /\ Branch(St, Seg) = "comment"
  /\ TakeSegment
  /\ Commit(IF lastExecutableNode # Null
              THEN appendMeta(St, lastExecutableNode, Trim(Seg.comment))
              ELSE St)

CommentOnly ==
  /\ pc = "loop" /\ i < Len(segments)
  /\ Branch(St, Seg) = "comment"
  /\ TakeSegment
  /\ Commit(IF lastNode # Null
              THEN appendMeta(St, lastNode, Trim(Seg.comment))
              ELSE St)

FunClose ==
  /\ pc = "loop" /\ i < Len(segments)
  /\ Branch(St, Seg) = "closeFun"
  /\ TakeSegment
  /\ Commit(closeFun(St, Seg).s)

NonStatement ==
  /\ pc = "loop" /\ i < Len(segments)
  /\ Branch(St, Seg) = "skip"
  /\ TakeSegment
  /\ Commit(St)

IsCollapsed(trimmedCode) == StartsWith(Trim(trimmedCode), "!")

\* afterFun.replace(/^!\s*/, '') for a collapsed header, then trim
FunName(trimmedCode) ==
  IF IsCollapsed(trimmedCode) THEN Trim(TrimStart(Tail(Trim(trimmedCode))))
  ELSE Trim(Trim(trimmedCode))

FunHeaderText(trimmedCode) ==
  (IF IsCollapsed(trimmedCode) THEN "fun! " ELSE "fun ") \o FunName(trimmedCode)

\* funStack.push({ header: funNode, bodyNodeIds: [] }); currentBranchIndex = null
PushFun(S, funNode) ==
  [S EXCEPT
     !.funStack = Append(@, [header |-> NodeRef(S, funNode),
                             bodyNodeIds |-> <<>>,
                             lastBodyNodeId |-> Null]),
     !.currentBranchIndex = Null]

FunOpenStep(S, seg, gram) ==
  PushFun(
    wireSequential(
      appendMeta(
        createExecutableNode(S, "Process", seg, FunHeaderText(gram.trimmedCode),
          Gram(gram.speckey, "", gram.linekey, FunHeaderText(gram.trimmedCode)),
          TRUE),
        NewNodePos(S),
        "fun-block " \o (IF IsCollapsed(gram.trimmedCode) THEN "collapsed"
                         ELSE "expanded")),
      NewNodePos(S), TRUE),
    NewNodePos(S))

FunOpen ==
  /\ pc = "loop" /\ i < Len(segments)
  /\ Branch(St, Seg) = "fun"
  /\ TakeSegment
  /\ Commit(FunOpenStep(St, Seg, SegGram(Seg)))

BareElseThen ==
  /\ pc = "loop" /\ i < Len(segments)
  /\ Branch(St, Seg) = "bare"
  /\ TakeSegment
  /\ Commit(handleBareElseThen(St, Seg,
                               SegGram(Seg)))

\* the end handler inside a decision's range
EndInRange(S, endNode, seg, speckey) ==
  [(IF isElseOrThen(speckey)
      THEN wireIntoDecisionIfAny(S, endNode, seg, speckey).s
      ELSE [S EXCEPT !.currentBranchIndex = Null])
     EXCEPT !.lastExecutableNode = Null]

\* an end handler that wires the End node to the node before it
EndOutOfRange_Wired(S, endNode) ==
  [pushEdgeBetween(S, endNode - 1, endNode)
     EXCEPT !.currentBranchIndex = Null,
            !.lastExecutableNode = findPrevSequentialCandidate(S.nodes, endNode)]

\* the end handler outside any decision's range
EndOutOfRange(S, endNode) ==
  [S EXCEPT !.currentBranchIndex = Null,
            !.lastExecutableNode = findPrevSequentialCandidate(S.nodes, endNode)]

\* the end handler after the End node is created and tagged; inRange is the
\* test on the context read before the creation
EndWire(S, inRange, endNode, seg, speckey) ==
  IF inRange THEN EndInRange(S, endNode, seg, speckey)
  ELSE EndOutOfRange(S, endNode)

EndStep(S, seg, gram) ==
  EndWire(
    appendMeta(createExecutableNode(S, "End", seg, gram.trimmedCode, gram, FALSE),
               NewNodePos(S), "explicit end"),
    S.decisionStack # <<>> /\ inDecisionRange(Last(S.decisionStack), seg),
    NewNodePos(S), seg, gram.speckey)

EndNode ==
  /\ pc = "loop" /\ i < Len(segments)
  /\ Branch(St, Seg) = "end"
  /\ TakeSegment
  /\ Commit(EndStep(St, Seg, SegGram(Seg)))

IOKind(nodekey) == IF nodekey = "im" THEN "Input" ELSE "Output"

IOStep(S, seg, gram) ==
  handleExecutableNode(S, IOKind(gram.nodekey), seg, gram, gram.trimmedCode,
                       gram.speckey)

InputOutput ==
  /\ pc = "loop" /\ i < Len(segments)
  /\ Branch(St, Seg) = "io"
  /\ TakeSegment
  /\ Commit(IOStep(St, Seg, SegGram(Seg)))

\* the decision handler: the wiring of the new Decision node
DecisionWire(S, decisionNode, seg, speckey) ==
  IF CanAttach(S, seg, speckey) THEN AttachBySpecKey(S, decisionNode, speckey)
  ELSE WireUnlessInFun(S, decisionNode)

NewContext(S, decisionNode, labels) ==
  [header |-> NodeRef(S, decisionNode),
   branches |-> <<>>,
   tails |-> <<>>,
   hasExplicitSpec |-> FALSE,
   labels |-> IF Len(labels) > 1 THEN labels ELSE <<>>,
   branchIndent |-> Null]

\* the decision handler: the label tag and the push of the new context
DecisionPush(S, decisionNode, labels) ==
  [(IF Len(labels) > 1
      THEN [S EXCEPT !.nodes[decisionNode].meta =
                        "labels: [" \o Join(labels, ", ") \o "]"]
      ELSE S)
     EXCEPT !.decisionStack = Append(@, NewContext(S, decisionNode, labels))]

\* the decision handler after popObsoleteDecisions
DecisionAfterPop(S, seg, gram) ==
  DecisionPush(
    DecisionWire(
      createExecutableNode([S EXCEPT !.currentBranchIndex = Null],
                           "Decision", seg, gram.trimmedCode, gram, FALSE),
      NewNodePos(S), seg, gram.speckey),
    NewNodePos(S), splitDecisionLabels(gram.trimmedCode))

DecisionStep(S, seg, gram) ==
  DecisionAfterPop(popObsoleteDecisions(S, seg, gram.speckey), seg, gram)

Decision ==
  /\ pc = "loop" /\ i < Len(segments)
  /\ Branch(St, Seg) = "dec"
  /\ TakeSegment
  /\ Commit(DecisionStep(St, Seg, SegGram(Seg)))

\* gb.lastConnectorLikeNode = connectorNode; gb.lastExecutableNode = connectorNode
MarkConnector(S, connectorNode) ==
  [S EXCEPT !.lastConnectorLikeNode = connectorNode,
            !.lastExecutableNode = connectorNode]

SetCursor(S, pos) == [S EXCEPT !.lastExecutableNode = pos]

ConnectorText(trimmedCode) == IF trimmedCode # "" THEN trimmedCode ELSE "ii"

ConnectorStep(S, seg, gram) ==
  WireUnlessInFun(
    SetCursor(
      computeConnectorFanin(
        popObsoleteDecisions(
          MarkConnector(
            createExecutableNode(S, "Connector", seg,
                                 ConnectorText(gram.trimmedCode), gram, FALSE),
            NewNodePos(S)),
          seg, gram.speckey),
        NewNodePos(S)),
      NewNodePos(S)),
    NewNodePos(S))

Connector ==
  /\ pc = "loop" /\ i < Len(segments)
  /\ Branch(St, Seg) = "ii"
  /\ TakeSegment
  /\ Commit(ConnectorStep(St, Seg, SegGram(Seg)))

StatementStep(S, seg, gram) ==
  handleExecutableNode(S, "Process", seg, gram, gram.trimmedCode, gram.speckey)

Statement ==
  /\ pc = "loop" /\ i < Len(segments)
  /\ Branch(St, Seg) = "statement"
  /\ TakeSegment
  /\ Commit(StatementStep(St, Seg, SegGram(Seg)))

\* the value parseivx returns, with the text it was called on
Returned(S) ==
  [text |-> text, nodes |-> S.nodes, edges |-> S.edges,
   startNodeId |-> S.nodes[StartPos].id, endNodeId |-> S.endNodeId]

Return(S) == Commit(S) /\ returned' = Append(returned, Returned(S))

\* the end of the loop, the finalization and the return of the graph
Finalize ==
  /\ pc = "loop"
  /\ i = Len(segments)
  /\ Return(Finalization(St))
  /\ pc' = "done"
  /\ UNCHANGED <<text, segments, i>>

\* the state parseivx starts from: collectSegments of the text, a new
\* GraphBuilder, and the locals
Start(docs) ==
  /\ text \in docs
  /\ segments = collectSegments(text)
  /\ i = 0
  /\ pc = "loop"
  /\ nodes = NewGraphBuilder.nodes
  /\ edges = NewGraphBuilder.edges
  /\ gbEndNodeId = NewGraphBuilder.gbEndNodeId
  /\ nextId = NewGraphBuilder.nextId
  /\ lastExecutableNode = NewGraphBuilder.lastExecutableNode
  /\ lastConnectorLikeNode = NewGraphBuilder.lastConnectorLikeNode
  /\ pendingNextNodes = NewGraphBuilder.pendingNextNodes
  /\ lastNode = StartPos
  /\ endNodeId = Null
  /\ currentBranchIndex = Null
  /\ decisionStack = <<>>
  /\ funStack = <<>>
  /\ returned = <<>>

Init == Start(Documents)

Next ==
  \/ Write
  \/ CommentOnly
  \/ FunClose
  \/ NonStatement
  \/ FunOpen
  \/ BareElseThen
  \/ EndNode
  \/ InputOutput
  \/ Decision
  \/ Connector
  \/ Statement
  \/ Finalize

Spec == Init /\ [][Next]_vars

\* ------------------------------------------------------ repeated invocations
\* a function block with a forward jump, a comment, a continuation and an End
FunBlock == "fun f\nim v next\n}\n# note\n\\\nend"

\* The documents parseivx is invoked on again and again.
RepeatDocuments == {"", Scenario, FunBlock}

\* an invocation that takes the id counter over from the one before
FreshParse_KeepCounter == [NewParse(NewGraphBuilder) EXCEPT !.nextId = nextId]

\* what an invocation of parseivx builds before its loop
FreshParse == NewParse(NewGraphBuilder)

\* parseivx is invoked again, after an invocation has returned
Invoke(doc) ==
  /\ pc = "done"
  /\ Len(returned) < MaxRuns
  /\ text' = doc
  /\ segments' = collectSegments(doc)
  /\ i' = 0
  /\ pc' = "loop"
  /\ Commit(FreshParse)
  /\ UNCHANGED returned

Reinvoke == \E doc \in RepeatDocuments : Invoke(doc)

InitRepeat == Start(RepeatDocuments)

NextRepeat ==
  \/ CommentOnly
  \/ FunClose
  \/ NonStatement
  \/ FunOpen
  \/ BareElseThen
  \/ EndNode
  \/ InputOutput
  \/ Decision
  \/ Connector
  \/ Statement
  \/ Finalize
  \/ Reinvoke

SpecRepeat == InitRepeat /\ [][NextRepeat]_vars

\* -------------------------------------------------------------- properties
\* the positions of the nodes of one kind
KindPositions(nodeList, kind) == {k \in 1..Len(nodeList) : nodeList[k].kind = kind}

\* the returned graphs
Graphs == {returned[r] : r \in 1..Len(returned)}

\* the segments of a text that are statements: neither comment-only nor
\* without a grammar
IsStatementSegment(s) ==
  ~(Trim(s.code) = "" /\ Trim(s.comment) # "") /\ ~SegGram(s).none

StatementsOf(docText) == SelectSeq(collectSegments(docText), IsStatementSegment)

\* C1: every returned graph has exactly one node of kind Start, which has id 0
\* and is the first node of the list, and has at least one node of kind End.
C1_OneStartSomeEnd ==
  \A g \in Graphs :
    /\ KindPositions(g.nodes, "Start") = {StartPos}
    /\ g.nodes[StartPos].id = 0
    /\ KindPositions(g.nodes, "End") # {}

\* a graph is returned for a document of three statements
C1_Witness == \E g \in Graphs : Len(StatementsOf(g.text)) = 3

\* C2: in every state of the parse and in every returned graph no two edges
\* have the same from, to and label (an absent label counts as the empty
\* label), and pushing an edge that is present, with its label absent or
\* empty alike, changes nothing.
SameTriple(e, f) ==
  e.from = f.from /\ e.to = f.to /\ LabelOrEmpty(e.label) = LabelOrEmpty(f.label)

NoDuplicate(edgeList) ==
  \A j, k \in 1..Len(edgeList) : SameTriple(edgeList[j], edgeList[k]) => j = k

C2_NoDuplicateEdges ==
  /\ NoDuplicate(edges)
  /\ \A g \in Graphs : NoDuplicate(g.edges)
  /\ \A k \in 1..Len(edges) :
       /\ pushEdge(St, edges[k]) = St
       /\ edges[k].label = NoLabel =>
            pushEdge(St, [edges[k] EXCEPT !.label = <<"">>]) = St

\* the first branch of a decision inside a function is attached: the edge
\* from the decision was pushed by registerInFun and again, without a label,
\* by attachElseNodeToDecision, and is there once
C2_Witness ==
  /\ funStack # <<>>
  /\ decisionStack # <<>>
  /\ Last(decisionStack).labels = <<>>
  /\ Len(Last(decisionStack).branches) = 1
  /\ Len(Last(funStack).bodyNodeIds) = 2
  /\ Last(funStack).bodyNodeIds[1] = Last(decisionStack).header.id
  /\ Last(funStack).bodyNodeIds[2] = nodes[Last(decisionStack).branches[1]].id
  /\ hasEdge(edges, Last(decisionStack).header.id,
             nodes[Last(decisionStack).branches[1]].id, NoLabel)

\* C7: the graph returned for a document without segments has exactly two
\* nodes, Start and the synthesized End, and exactly one edge, from Start to
\* that End, and validNodeIO returns no message for it.
C7_EmptyDocument ==
  \A g \in Graphs :
    collectSegments(g.text) = <<>> =>
      /\ Len(g.nodes) = 2
      /\ g.nodes[1].kind = "Start"
      /\ g.nodes[2].kind = "End"
      /\ g.nodes[2].id = g.endNodeId
      /\ g.edges = <<NewEdge(g.nodes[1].id, g.nodes[2].id, NoLabel)>>
      /\ validNodeIO(g.nodes, g.edges) = <<>>

\* the graph of the empty document is returned
C7_Witness == \E g \in Graphs : g.text = ""

\* C8: the graph returned for a document whose only statement is a Connector
\* segment has exactly the edges Start -> connector and connector ->
\* synthesized End, and validNodeIO returns no message for it.
IsLoneConnector(docText) ==
  /\ Len(StatementsOf(docText)) = 1
  /\ SegGram(StatementsOf(docText)[1]).nodekey = "ii"

C8_LoneConnector ==
  \A g \in Graphs :
    IsLoneConnector(g.text) =>
      /\ Len(g.nodes) = 3
      /\ g.nodes[2].kind = "Connector"
      /\ g.nodes[3].kind = "End"
      /\ g.nodes[3].id = g.endNodeId
      /\ {g.edges[k] : k \in 1..Len(g.edges)} =
           {NewEdge(g.nodes[1].id, g.nodes[2].id, NoLabel),
            NewEdge(g.nodes[2].id, g.nodes[3].id, NoLabel)}
      /\ Len(g.edges) = 2
      /\ validNodeIO(g.nodes, g.edges) = <<>>

\* the graph of a document with one Connector segment and nothing else
C8_Witness ==
  \E g \in Graphs : IsLoneConnector(g.text) /\ Len(collectSegments(g.text)) = 1

\* C10: in every state the node ids increase strictly along the node list
\* (so they are pairwise distinct); in every returned graph the last node is
\* the synthesized End, its id is the largest, endNodeId is its id and
\* startNodeId is 0, also when the document declares End nodes itself.
Increasing(nodeList) ==
  \A k \in 1..(Len(nodeList) - 1) : nodeList[k].id < nodeList[k + 1].id

C10_IdsIncreaseEndLast ==
  /\ Increasing(nodes)
  /\ \A j, k \in 1..Len(nodes) : nodes[j].id = nodes[k].id => j = k
  /\ \A g \in Graphs :
       /\ Increasing(g.nodes)
       /\ Last(g.nodes).kind = "End"
       /\ StartsWith(Last(g.nodes).meta, "implicit end")
       /\ \A k \in 1..Len(g.nodes) : g.nodes[k].id <= Last(g.nodes).id
       /\ g.endNodeId = Last(g.nodes).id
       /\ g.startNodeId = 0

\* a graph is returned that holds an End node the document declared, before
\* the synthesized one
C10_Witness ==
  \E g \in Graphs :
    \E k \in 1..(Len(g.nodes) - 1) :
      g.nodes[k].kind = "End" /\ Includes(g.nodes[k].meta, "explicit end")
\* the id of the one node of a graph with a given text and kind
IdOf(g, kind, nodeText) ==
  g.nodes[CHOOSE k \in 1..Len(g.nodes) :
            g.nodes[k].kind = kind /\ g.nodes[k].text = nodeText].id

EdgeSet(g) == {g.edges[k] : k \in 1..Len(g.edges)}

\* C3: the graph returned for the seven-statement scenario has the edges
\* Start -> a, a -> b, b -> dec, dec -> branch1 labeled c, branch1 -> b1b,
\* dec -> branch2 labeled d, b1b -> connector, branch2 -> connector and
\* connector -> synthesized End, and validNodeIO returns no message for it.
ScenarioEdges(g) ==
  {NewEdge(g.startNodeId, IdOf(g, "Process", "a"), NoLabel),
   NewEdge(IdOf(g, "Process", "a"), IdOf(g, "Process", "b"), NoLabel),
   NewEdge(IdOf(g, "Process", "b"), IdOf(g, "Decision", "c, d"), NoLabel),
   NewEdge(IdOf(g, "Decision", "c, d"), IdOf(g, "Process", "branch1"), <<"c">>),
   NewEdge(IdOf(g, "Process", "branch1"), IdOf(g, "Process", "b1b"), NoLabel),
   NewEdge(IdOf(g, "Decision", "c, d"), IdOf(g, "Process", "branch2"), <<"d">>),
   NewEdge(IdOf(g, "Process", "b1b"), IdOf(g, "Connector", "end1"), NoLabel),
   NewEdge(IdOf(g, "Process", "branch2"), IdOf(g, "Connector", "end1"), NoLabel),
   NewEdge(IdOf(g, "Connector", "end1"), g.endNodeId, NoLabel)}

C3_Scenario ==
  \A g \in Graphs :
    g.text = Scenario =>
      /\ ScenarioEdges(g) \subseteq EdgeSet(g)
      /\ validNodeIO(g.nodes, g.edges) = <<>>

\* C4: in the graph returned for a document of plain statements at one
\* indentation followed by a Connector at that indentation, every statement
\* without a successor among the statements has an edge into the Connector,
\* and no statement with such a successor has one.
IsPlainStatement(s) ==
  /\ SegGram(s).nodekey \in {"", "do"}
  /\ SegGram(s).speckey = ""
  /\ SegGram(s).linekey = <<>>

\* the document: statements, all of them segments, then one Connector
IsSiblingsThenConnector(segs) ==
  /\ Len(segs) >= 2
  /\ \A k \in 1..Len(segs) : IsStatementSegment(segs[k])
  /\ \A k \in 1..(Len(segs) - 1) :
       IsPlainStatement(segs[k]) /\ segs[k].indent = segs[Len(segs)].indent
  /\ SegGram(segs[Len(segs)]).nodekey = "ii"
  /\ SegGram(segs[Len(segs)]).speckey = ""
  /\ SegGram(segs[Len(segs)]).linekey = <<>>

\* In such a graph node k + 1 is the node of segment k.
SiblingPositions(segs) == 2..Len(segs)

HasSiblingSuccessor(g, segs, k) ==
  \E j \in SiblingPositions(segs) :
    hasEdgeAnyLabel(g.edges, g.nodes[k].id, g.nodes[j].id)

C4_SiblingsConverge ==
  \A g \in Graphs :
    IsSiblingsThenConnector(collectSegments(g.text)) =>
      \A k \in SiblingPositions(collectSegments(g.text)) :
        hasEdgeAnyLabel(g.edges, g.nodes[k].id,
                        g.nodes[Len(collectSegments(g.text)) + 1].id)
          <=> ~HasSiblingSuccessor(g, collectSegments(g.text), k)

\* C5: a Decision node declared with n labels has at most n labeled edges
\* leaving it, in every state and in every returned graph, and they carry
\* the declared labels in order; the edge from a decision to its k-th
\* branch-start carries the k-th declared label when it is labeled, and is
\* not labeled when k is beyond n.
LabeledOut(edgeList, id) ==
  SelectSeq(edgeList, LAMBDA e : e.from = id /\ e.label # NoLabel)

LabelsInOrder(nodeList, edgeList) ==
  \A k \in KindPositions(nodeList, "Decision") :
    /\ Len(LabeledOut(edgeList, nodeList[k].id))
         <= Len(splitDecisionLabels(nodeList[k].text))
    /\ \A j \in 1..Len(LabeledOut(edgeList, nodeList[k].id)) :
         LabeledOut(edgeList, nodeList[k].id)[j].label =
           <<splitDecisionLabels(nodeList[k].text)[j]>>

\* the edges from the header of an open decision to its k-th branch-start
BranchEdges(ctx, k) ==
  SelectSeq(edges, LAMBDA e : e.from = ctx.header.id /\ e.to = nodes[ctx.branches[k]].id)

BranchLabelsByPosition(ctx) ==
  \A k \in 1..Len(ctx.branches) :
    \A j \in 1..Len(BranchEdges(ctx, k)) :
      /\ BranchEdges(ctx, k)[j].label # NoLabel =>
           /\ k <= Len(splitDecisionLabels(nodes[ctx.header.pos].text))
           /\ BranchEdges(ctx, k)[j].label =
                <<splitDecisionLabels(nodes[ctx.header.pos].text)[k]>>

C5_LabelsByPosition ==
  /\ LabelsInOrder(nodes, edges)
  /\ \A g \in Graphs : LabelsInOrder(g.nodes, g.edges)
  /\ \A d \in 1..Len(decisionStack) : BranchLabelsByPosition(decisionStack[d])

\* a graph is returned in which a decision with two labels has three
\* branches: two labeled edges and one without a label leave it
C5_Witness ==
  \E g \in Graphs :
    \E k \in KindPositions(g.nodes, "Decision") :
      /\ Len(splitDecisionLabels(g.nodes[k].text)) = 2
      /\ Len(LabeledOut(g.edges, g.nodes[k].id)) = 2
      /\ OutDegree(g.edges, g.nodes[k].id) = 3

\* C6 as stated: from a graph without messages, removing one edge that an
\* arity rule requires leaves exactly one message, about an endpoint.
RemoveAt(seq, k) == SubSeq(seq, 1, k - 1) \o SubSeq(seq, k + 1, Len(seq))

NodeOfId(g, id) == g.nodes[CHOOSE k \in 1..Len(g.nodes) : g.nodes[k].id = id]

\* the edge is required: without it an endpoint is below the minimum of the
\* rule of its kind
IsRequired(g, e) ==
  \/ OutDegree(g.edges, e.from) - 1 < NODE_ARITY_RULES[NodeOfId(g, e.from).kind].minOut
  \/ InDegree(g.edges, e.to) - 1 < NODE_ARITY_RULES[NodeOfId(g, e.to).kind].minIn

\* the shortfalls validNodeIO looks at: those of endpoints it does not exempt
Shortfalls(g, e) ==
  (IF /\ ~IsExempt(NodeOfId(g, e.from))
      /\ OutDegree(g.edges, e.from) - 1
           < NODE_ARITY_RULES[NodeOfId(g, e.from).kind].minOut
     THEN 1 ELSE 0)
  + (IF /\ ~IsExempt(NodeOfId(g, e.to))
        /\ InDegree(g.edges, e.to) - 1
             < NODE_ARITY_RULES[NodeOfId(g, e.to).kind].minIn
       THEN 1 ELSE 0)

AfterRemoval(g, k) == validNodeIO(g.nodes, RemoveAt(g.edges, k))

C6_ExactlyOneMessage ==
  \A g \in Graphs :
    validNodeIO(g.nodes, g.edges) = <<>> =>
      \A k \in 1..Len(g.edges) :
        IsRequired(g, g.edges[k]) =>
          /\ Len(AfterRemoval(g, k)) = 1
          /\ AfterRemoval(g, k)[1].id \in {g.edges[k].from, g.edges[k].to}

\* C6, amended: from a graph without messages, removing one edge that an
\* arity rule requires leaves one message for each endpoint that is not a
\* function-body node and is now below its minimum: at most two messages, all
\* of them about a minimum and about an endpoint of the removed edge.
C6_OneMessagePerEndpoint ==
  \A g \in Graphs :
    validNodeIO(g.nodes, g.edges) = <<>> =>
      \A k \in 1..Len(g.edges) :
        IsRequired(g, g.edges[k]) =>
          /\ Len(AfterRemoval(g, k)) = Shortfalls(g, g.edges[k])
          /\ Len(AfterRemoval(g, k)) <= 2
          /\ \A m \in 1..Len(AfterRemoval(g, k)) :
               /\ AfterRemoval(g, k)[m].id \in {g.edges[k].from, g.edges[k].to}
               /\ AfterRemoval(g, k)[m].expected = ">="

\* a graph without messages is returned in which the removal of a required
\* edge leaves two messages, one for each endpoint
C6_Witness ==
  \E g \in Graphs :
    /\ validNodeIO(g.nodes, g.edges) = <<>>
    /\ Len(g.nodes) > 2
    /\ \E k \in 1..Len(g.edges) :
         IsRequired(g, g.edges[k]) /\ Len(AfterRemoval(g, k)) = 2
\* C9: invocations on the same text return the same graph, whatever was
\* parsed before or between them, and every invocation starts its loop from
\* the state of a new builder and new locals.
C9_SameTextSameGraph ==
  /\ \A g1, g2 \in Graphs : g1.text = g2.text => g1 = g2
  /\ (pc = "loop" /\ i = 0) => St = NewParse(NewGraphBuilder)

\* a text is parsed a second time after another text was parsed in between
C9_Witness ==
  /\ Len(returned) = 3
  /\ returned[1].text = returned[3].text
  /\ returned[2].text # returned[1].text
  /\ Len(returned[1].nodes) > 2
  /\ Len(returned[2].nodes) > 2
NodeIds(g) == {g.nodes[k].id : k \in 1..Len(g.nodes)}

\* a returned graph is whole: its edges join nodes of the graph, its end node
\* is one of them, and validNodeIO yields its list of messages for it
IsWhole(g) ==
  /\ \A k \in 1..Len(g.edges) :
       g.edges[k].from \in NodeIds(g) /\ g.edges[k].to \in NodeIds(g)
  /\ g.endNodeId \in NodeIds(g)
  /\ Len(validNodeIO(g.nodes, g.edges)) >= 0

\* the branches of the body of the segment loop
LoopBranches ==
  {"comment", "closeFun", "skip", "fun", "bare", "end", "io", "dec", "ii",
   "statement"}

\* C11: whatever the segments, malformed ones included, parseivx does not
\* abort: the loop has a branch for every segment it comes to, it leaves no
\* segment behind, and once it is over one graph has been returned, which is
\* whole and which validNodeIO takes.
C11_NeverAborts ==
  /\ pc = "loop" =>
       /\ i <= Len(segments)
       /\ i < Len(segments) => Branch(St, Seg) \in LoopBranches
  /\ pc = "done" =>
       /\ i = Len(segments)
       /\ Len(returned) = 1
       /\ returned[1].text = text
  /\ \A g \in Graphs : IsWhole(g)

\* the graph of the malformed document is returned, and validNodeIO has
\* messages for it
C11_Witness ==
  \E g \in Graphs : g.text = Malformed /\ validNodeIO(g.nodes, g.edges) # <<>>

\* ------------------------------------------------------------- C12
\* a degree lies within the bounds of the arity table for a kind and direction
WithinArity(kind, dir, degree) ==
  IF dir = "inputs"
    THEN /\ degree >= NODE_ARITY_RULES[kind].minIn
         /\ (NODE_ARITY_RULES[kind].maxIn = Infinity
             \/ degree <= NODE_ARITY_RULES[kind].maxIn)
    ELSE /\ degree >= NODE_ARITY_RULES[kind].minOut
         /\ (NODE_ARITY_RULES[kind].maxOut = Infinity
             \/ degree <= NODE_ARITY_RULES[kind].maxOut)

DegreeOf(edgeList, id, dir) ==
  IF dir = "inputs" THEN InDegree(edgeList, id) ELSE OutDegree(edgeList, id)

\* the node at position k is not a function-body member and its degree in
\* direction dir is outside the table
Offends(nodeList, edgeList, k, dir) ==
  /\ ~Includes(nodeList[k].meta, "fun-body-of=")
  /\ ~WithinArity(nodeList[k].kind, dir,
                  DegreeOf(edgeList, nodeList[k].id, dir))

\* the messages of a list that are about one node and one direction
MessagesAbout(msgs, id, dir) ==
  {m \in 1..Len(msgs) : msgs[m].id = id /\ msgs[m].dir = dir}

ArityAgrees(nodeList, edgeList, msgs) ==
  /\ \A k \in 1..Len(nodeList) : \A dir \in {"inputs", "outputs"} :
       Cardinality(MessagesAbout(msgs, nodeList[k].id, dir))
         = IF Offends(nodeList, edgeList, k, dir) THEN 1 ELSE 0
  /\ \A m \in 1..Len(msgs) : \E k \in 1..Len(nodeList) :
       /\ msgs[m].id = nodeList[k].id
       /\ msgs[m].kind = nodeList[k].kind
       /\ msgs[m].count = DegreeOf(edgeList, nodeList[k].id, msgs[m].dir)
  /\ (msgs = <<>>) <=>
       (\A k \in 1..Len(nodeList) : \A dir \in {"inputs", "outputs"} :
          ~Offends(nodeList, edgeList, k, dir))

\* C12: on the graph built so far and on every returned graph, validNodeIO
\* gives exactly one message for each (node, direction) whose degree is
\* outside the arity table and whose node is not a function-body member, no
\* other message, and none at all exactly when no such pair exists.
C12_MessagePerOffence == ArityAgrees(nodes, edges, validNodeIO(nodes, edges))

\* a graph in which a function-body member has a degree outside the table and
\* gets no message, while another node gets one for too many edges
C12_Witness ==
  /\ pc = "done"
  /\ \E k \in 1..Len(nodes) :
       /\ Includes(nodes[k].meta, "fun-body-of=")
       /\ ~WithinArity(nodes[k].kind, "outputs", OutDegree(edges, nodes[k].id))
       /\ MessagesAbout(validNodeIO(nodes, edges), nodes[k].id, "outputs") = {}
  /\ \E m \in 1..Len(validNodeIO(nodes, edges)) :
       validNodeIO(nodes, edges)[m].expected = "<="

\* ------------------------------------------------------------- C13
\* the two conditions under which popObsoleteDecisions pops a context
PopRule(ctx, seg, speckey) ==
  \/ seg.indent < DecisionCutoff(ctx)
  \/ /\ seg.indent = DecisionCutoff(ctx)
     /\ ~isElseOrThen(speckey)
     /\ ctx.hasExplicitSpec

\* a step keeps the n oldest contexts of a stack, removes the ones above them
\* and adds at most one, whose header is a node made in this step
KeepsBottom(old, new, n) ==
  /\ Len(new) \in {n, n + 1}
  /\ \A k \in 1..n : new[k].header = old[k].header
  /\ Len(new) = n + 1 => new[n + 1].header.pos > Len(nodes)

DecisionsFromTop ==
  \E n \in 0..Len(decisionStack) :
    /\ KeepsBottom(decisionStack, decisionStack', n)
    /\ n < Len(decisionStack) =>
         /\ pc = "loop" /\ i < Len(segments)
         /\ Branch(St, Seg) \in {"bare", "io", "dec", "ii", "statement"}
         /\ \A k \in (n + 1)..Len(decisionStack) :
              PopRule(decisionStack[k], Seg, SegGram(Seg).speckey)

FunctionsFromTop ==
  \E n \in 0..Len(funStack) :
    /\ KeepsBottom(funStack, funStack', n)
    /\ n < Len(funStack) =>
         /\ pc = "loop" /\ i < Len(segments)
         /\ EndsWithBrace(TrimEnd(Seg.code))
         /\ n = Len(funStack) - 1
         /\ Len(funStack') = n

\* C13: every step leaves the older contexts of both stacks in place; decision
\* contexts leave from the top and only when the pop rule applies to them;
\* a function context leaves only on a segment whose code ends in a closing
\* brace, and then exactly the top one leaves.
C13_TopOnly == [][DecisionsFromTop /\ FunctionsFromTop]_vars

\* in the nested document, after the inner function was closed and the two
\* decisions were popped together, the outer function is the one still open
C13_Witness ==
  /\ text = Nested
  /\ i = 6
  /\ decisionStack = <<>>
  /\ Len(funStack) = 1
  /\ nodes[funStack[1].header.pos].text = "fun f"
  /\ Cardinality(KindPositions(nodes, "Decision")) = 2

\* ------------------------------------------------------------- C14
\* the End nodes of a node list that are the source of an edge
EndSources(nodeList, edgeList) ==
  {k \in KindPositions(nodeList, "End") :
     \E e \in 1..Len(edgeList) : edgeList[e].from = nodeList[k].id}

\* C14: no node of kind End ever has an outgoing edge, neither while the
\* segments are handled nor in the returned graph.
C14_EndHasNoOutput == EndSources(nodes, edges) = {}

\* ------------------------------------------------------------- C15
\* the nodes that were appended to the body list of an open function context
\* and do not carry the function-membership tag
UntaggedMembers ==
  {k \in 1..Len(nodes) :
     /\ \E f \in 1..Len(funStack) : InSeq(funStack[f].bodyNodeIds, nodes[k].id)
     /\ ~Includes(nodes[k].meta, "fun-body-of=")}

\* C15: a tag put in a node's meta stays there; in particular every node that
\* was appended to a function context's body list, a Decision node with two
\* or more labels included, carries the function-membership tag.
C15_MembersKeepTag == UntaggedMembers = {}

\* ------------------------------------------------------------- C16
\* the ids one edge away from a set of ids, by edges between candidates
StepIn(edgeList, ids, fromIds) ==
  {edgeList[e].to : e \in {k \in 1..Len(edgeList) :
      /\ edgeList[k].from \in fromIds
      /\ edgeList[k].from \in ids
      /\ edgeList[k].to \in ids}}

RECURSIVE WalkFrom(_, _, _)
\* everything a directed walk of one edge or more reaches from the ids of
\* reached, by edges between candidates
WalkFrom(edgeList, ids, reached) ==
  IF StepIn(edgeList, ids, reached) \subseteq reached THEN reached
  ELSE WalkFrom(edgeList, ids, reached \cup StepIn(edgeList, ids, reached))

Reaches(edgeList, ids, a, b) ==
  b \in WalkFrom(edgeList, ids, StepIn(edgeList, ids, {a}))

\* the state of the connector handler when it calls computeConnectorFanin
BeforeFanin(S, seg, gram) ==
  popObsoleteDecisions(
    MarkConnector(
      createExecutableNode(S, "Connector", seg,
                           ConnectorText(gram.trimmedCode), gram, FALSE),
      NewNodePos(S)),
    seg, gram.speckey)

\* feederIds after the deletion loop, for the window of the connector at connPos
FeederIds(S, windowIds) ==
  PruneFeeders(windowIds, IdSet(windowIds),
               SuccsInWindow(S.edges, IdSet(windowIds)))

WindowIds(S, connPos) ==
  IdsAt(S.nodes, FaninWindow(S.nodes, S.nodes[connPos]))

RECURSIVE KeptInOrder(_, _, _, _)
\* candidates are taken in list order; one is dropped when a walk between
\* candidates leads from it to another candidate that has not been dropped
KeptInOrder(edgeList, faninIds, windowIds, kept) ==
  IF windowIds = <<>> THEN kept
  ELSE IF \E b \in kept \ {windowIds[1]} :
            Reaches(edgeList, faninIds, windowIds[1], b)
    THEN KeptInOrder(edgeList, faninIds, Tail(windowIds), kept \ {windowIds[1]})
    ELSE KeptInOrder(edgeList, faninIds, Tail(windowIds), kept)

\* the candidates that no other candidate reaches
NotReached(edgeList, ids) ==
  {b \in ids : ~\E a \in ids \ {b} : Reaches(edgeList, ids, a, b)}

\* the kept candidates without loop-back or forward-jump tag have an edge to
\* the connector, and no other candidate got one from the fan-in
FeedersWired(S1, S2, connPos, windowIds, kept) ==
  \A k \in 1..Len(S1.nodes) :
    S1.nodes[k].id \in IdSet(windowIds) =>
      IF S1.nodes[k].id \in kept /\ ~isLoopOrNextMeta(S1.nodes[k].meta)
        THEN hasEdgeAnyLabel(S2.edges, S1.nodes[k].id, S1.nodes[connPos].id)
        ELSE hasEdgeAnyLabel(S2.edges, S1.nodes[k].id, S1.nodes[connPos].id)
               => hasEdgeAnyLabel(S1.edges, S1.nodes[k].id, S1.nodes[connPos].id)

AtConnector == pc = "loop" /\ i < Len(segments) /\ Branch(St, Seg) = "ii"

FaninDropsReaching(S1, connPos, windowIds) ==
  /\ FeederIds(S1, windowIds)
       = KeptInOrder(S1.edges, IdSet(windowIds), windowIds, IdSet(windowIds))
  /\ FeedersWired(S1, computeConnectorFanin(S1, connPos), connPos, windowIds,
                  KeptInOrder(S1.edges, IdSet(windowIds), windowIds, IdSet(windowIds)))

FaninDropsReached(S1, connPos, windowIds) ==
  /\ FeederIds(S1, windowIds) = NotReached(S1.edges, IdSet(windowIds))
  /\ FeedersWired(S1, computeConnectorFanin(S1, connPos), connPos, windowIds,
                  NotReached(S1.edges, IdSet(windowIds)))

FaninCase(S1, connPos) == [s |-> S1, pos |-> connPos,
                           ids |-> WindowIds(S1, connPos)]

\* the call of computeConnectorFanin that the next segment leads to
NextFanin == FaninCase(BeforeFanin(St, Seg, SegGram(Seg)), NewNodePos(St))

\* C16 as amended: a candidate is dropped when it reaches another candidate
\* that is still a feeder, candidates being taken in list order; the candidates
\* that are kept and carry no loop-back or forward-jump tag get an edge to the
\* connector, the others get none.
C16_DropsReaching ==
  AtConnector => FaninDropsReaching(NextFanin.s, NextFanin.pos, NextFanin.ids)

\* C16 as stated: a candidate is dropped when another candidate reaches it,
\* and the candidates that are kept and carry no tag get an edge to the
\* connector.
C16_DropsReached ==
  AtConnector => FaninDropsReached(NextFanin.s, NextFanin.pos, NextFanin.ids)

\* a connector is about to be handled whose window holds a candidate that is
\* dropped and one that is kept
C16_Witness ==
  /\ AtConnector
  /\ FeederIds(NextFanin.s, NextFanin.ids) # {}
  /\ FeederIds(NextFanin.s, NextFanin.ids) # IdSet(NextFanin.ids)

\* ------------------------------------------------------------- C17
\* the Connector nodes of a graph that have no outgoing edge
DeadConnectors(g) ==
  {k \in KindPositions(g.nodes, "Connector") :
     OutDegree(g.edges, g.nodes[k].id) = 0}

\* C17: every Connector node of a returned graph has at least one outgoing
\* edge, whatever segments follow it.
C17_ConnectorHasOutput == \A g \in Graphs : DeadConnectors(g) = {}

\* ------------------------------------------------------------- C18
\* what the loop body does with a statement segment, by its branch
StatementStepOf(S, seg, gram, branch) ==
  CASE branch = "bare" -> handleBareElseThen(S, seg, gram)
    [] branch = "end" -> EndStep(S, seg, gram)
    [] branch = "io" -> IOStep(S, seg, gram)
    [] branch = "dec" -> DecisionStep(S, seg, gram)
    [] branch = "ii" -> ConnectorStep(S, seg, gram)
    [] OTHER -> StatementStep(S, seg, gram)

\* the branch tails of the context with the given header, <<>> if it is gone
TailsOf(stack, header) ==
  IF \E k \in 1..Len(stack) : stack[k].header = header
    THEN stack[CHOOSE k \in 1..Len(stack) : stack[k].header = header].tails
    ELSE <<>>

\* the next segment carries a branch marker, lies below the cutoff of the top
\* decision context, and the pop rule leaves a context whose range it is in
DedentedInRange(S, seg, gram, branch, popped) ==
  /\ branch \in {"bare", "end", "io", "dec", "ii", "statement"}
  /\ isElseOrThen(gram.speckey)
  /\ S.decisionStack # <<>>
  /\ seg.indent < DecisionCutoff(Last(S.decisionStack))
  /\ popped.decisionStack # <<>>
  /\ inDecisionRange(Last(popped.decisionStack), seg)

AttachedAsBare(S, seg, gram, branch, header) ==
  TailsOf(StatementStepOf(S, seg, gram, branch).decisionStack, header)
    = TailsOf(handleBareElseThen(S, seg, gram).decisionStack, header)

AtStatement ==
  /\ pc = "loop" /\ i < Len(segments)
  /\ Branch(St, Seg) \in {"bare", "end", "io", "dec", "ii", "statement"}

\* C18: a branch-marked statement segment that is dedented below the top
\* decision context and in range of an enclosing one is attached to the
\* enclosing context as a bare branch-marker segment is, whatever its node-key:
\* the enclosing context gets the same branch tails.
C18_PopBeforeAttach ==
  (AtStatement
     /\ DedentedInRange(St, Seg, SegGram(Seg), Branch(St, Seg),
                        popObsoleteDecisions(St, Seg, SegGram(Seg).speckey)))
    => AttachedAsBare(St, Seg, SegGram(Seg), Branch(St, Seg),
         Last(popObsoleteDecisions(St, Seg, SegGram(Seg).speckey).decisionStack).header)

\* ------------------------------------------------------------- C19
\* the indents and branch markers popObsoleteDecisions is tried with
ProbeIndents == 0..3
ProbeSpecKeys == {"", "else", "then"}

RECURSIVE PoppedRun(_, _, _)
\* the length of the maximal run of top contexts to which the pop rule applies
PoppedRun(stack, seg, speckey) ==
  IF stack # <<>> /\ PopRule(Last(stack), seg, speckey)
    THEN 1 + PoppedRun(SubSeq(stack, 1, Len(stack) - 1), seg, speckey)
    ELSE 0

\* the branch tail of a context that was set last: tails are set to the node
\* just made, so it is the one at the greatest position
MostRecentTail(ctx) ==
  IF ctx.tails = <<>> THEN ctx.header.pos
  ELSE ctx.tails[CHOOSE k \in 1..Len(ctx.tails) :
         \A j \in 1..Len(ctx.tails) : ctx.tails[j][2] <= ctx.tails[k][2]][2]

\* the contexts of the popped run that leave by the equal-indent condition
EqualIndentPops(stack, seg, run) ==
  {k \in (Len(stack) - run + 1)..Len(stack) :
     ~(seg.indent < DecisionCutoff(stack[k]))}

\* the cursor after the run: that of the last equal-indent pop, which is the
\* one of the oldest such context, or the old cursor when there was none
CursorAfter(S, seg, run) ==
  IF EqualIndentPops(S.decisionStack, seg, run) = {} THEN S.lastExecutableNode
  ELSE MostRecentTail(S.decisionStack[
         CHOOSE k \in EqualIndentPops(S.decisionStack, seg, run) :
           \A j \in EqualIndentPops(S.decisionStack, seg, run) : k <= j])

PopsAsStated(S, seg, speckey, run, after) ==
  /\ after.decisionStack
       = SubSeq(S.decisionStack, 1, Len(S.decisionStack) - run)
  /\ after.decisionStack # <<>> =>
       ~PopRule(Last(after.decisionStack), seg, speckey)
  /\ after.lastExecutableNode = CursorAfter(S, seg, run)
  /\ after.currentBranchIndex
       = IF run > 0 THEN Null ELSE S.currentBranchIndex
  /\ [after EXCEPT !.decisionStack = S.decisionStack,
                   !.lastExecutableNode = S.lastExecutableNode,
                   !.currentBranchIndex = S.currentBranchIndex] = S

\* C19: called in any state of the parse with any indent and branch marker,
\* popObsoleteDecisions removes exactly the maximal run of top contexts that
\* are below the cutoff, or at the cutoff with explicit branch content and no
\* branch marker on the segment; it leaves the cursor alone on below-cutoff
\* pops, puts it on the most recently set branch tail of the context (or its
\* header) on an equal-indent pop, clears the branch index on every pop and
\* changes nothing else.
C19_PopsMaximalRun ==
  \A d \in ProbeIndents : \A speckey \in ProbeSpecKeys :
    PopsAsStated(St, [indent |-> d], speckey,
                 PoppedRun(decisionStack, [indent |-> d], speckey),
                 popObsoleteDecisions(St, [indent |-> d], speckey))

\* a context with two branch tails is popped at its own indent and the cursor
\* moves to the tail of the second branch
C19_Witness ==
  /\ decisionStack # <<>>
  /\ Len(Last(decisionStack).tails) >= 2
  /\ Last(decisionStack).hasExplicitSpec
  /\ popObsoleteDecisions(St, [indent |-> DecisionCutoff(Last(decisionStack))],
                          "").lastExecutableNode
       = Last(Last(decisionStack).tails)[2]
  /\ lastExecutableNode # Last(Last(decisionStack).tails)[2]
  /\ Len(popObsoleteDecisions(St, [indent |-> DecisionCutoff(Last(decisionStack))],
                              "").decisionStack) < Len(decisionStack)

\* ------------------------------------------------------------- C20
\* a statement segment other than a function header is handled while a
\* function context is open
InFunStatement ==
  /\ pc = "loop" /\ i < Len(segments)
  /\ funStack # <<>>
  /\ Branch(St, Seg) \in {"bare", "end", "io", "dec", "ii", "statement"}

\* fromId of registerInFun: the running tail of the open context
RunningTail(ctx) ==
  IF ctx.lastBodyNodeId # Null THEN ctx.lastBodyNodeId ELSE ctx.header.id

\* the sources registerInFun may wire the new node from
TailSources(nodeList, ctx) ==
  {nodeList[k].id : k \in {j \in 1..Len(nodeList) :
      /\ nodeList[j].id = RunningTail(ctx)
      /\ ~isLoopOrNextMeta(nodeList[j].meta)}}

\* the sources the branch rules may wire the new node from: the header and
\* the branch tails of a decision context
BranchSources(nodeList, stack) ==
  {stack[k].header.id : k \in 1..Len(stack)}
    \cup UNION {{nodeList[stack[k].tails[t][2]].id :
                    t \in 1..Len(stack[k].tails)} : k \in 1..Len(stack)}

\* the sources of the edges a step adds into the node it makes
NewSources ==
  {edges'[k].from : k \in {j \in (Len(edges) + 1)..Len(edges') :
      edges'[j].to = nodes'[Len(nodes) + 1].id}}

\* C20: a statement node made while a function context is open is not wired
\* by the default sequential rule: apart from the edges of the branch rules and
\* of the connector fan-in, the only edge into it comes from the context's
\* running tail (its header when the body is empty), none if that tail is
\* loop-back or forward-jump tagged; the node joins the context's body list.
C20_NoSequentialWireInFun ==
  [][InFunStatement =>
       /\ Len(nodes') = Len(nodes) + 1
       /\ Len(funStack') = Len(funStack)
       /\ Last(funStack').bodyNodeIds
            = Append(Last(funStack).bodyNodeIds, nodes'[Len(nodes) + 1].id)
       /\ Last(funStack').lastBodyNodeId = nodes'[Len(nodes) + 1].id
       /\ Branch(St, Seg) # "ii" =>
            NewSources \subseteq
              (TailSources(nodes, Last(funStack))
                 \cup BranchSources(nodes, decisionStack))]_vars

\* ------------------------------------------------------------- C21
\* the segment handled next has code that ends in a closing brace
AtBrace ==
  /\ pc = "loop" /\ i < Len(segments)
  /\ EndsWithBrace(TrimEnd(Seg.code))

\* the node list is the old one, but for the meta of the node at pos
SameButMeta(old, new, pos) ==
  /\ Len(new) >= Len(old)
  /\ \A k \in 1..Len(old) :
       IF k = pos THEN [new[k] EXCEPT !.meta = old[k].meta] = old[k]
       ELSE new[k] = old[k]

\* closeFun on a context with body nodes: one footer, one edge into it
ClosesWithFooter(funCtx) ==
  /\ Len(nodes') = Len(nodes) + 1
  /\ SameButMeta(nodes, nodes', funCtx.header.pos)
  /\ nodes'[Len(nodes')].kind = "Process"
  /\ Includes(nodes'[Len(nodes')].meta,
              "fun-footer-of=" \o ToString(funCtx.header.id))
  /\ edges' = Append(edges, NewEdge(funCtx.lastBodyNodeId,
                                    nodes'[Len(nodes')].id, NoLabel))
  /\ lastExecutableNode' = Len(nodes')

\* closeFun on a context without body nodes
ClosesSilently ==
  /\ nodes' = nodes
  /\ edges' = edges
  /\ lastExecutableNode' = lastExecutableNode

BraceStep ==
  IF funStack # <<>>
    THEN /\ IF Last(funStack).bodyNodeIds # <<>>
              THEN ClosesWithFooter(Last(funStack))
              ELSE ClosesSilently
         /\ currentBranchIndex' = Null
         /\ funStack' = SubSeq(funStack, 1, Len(funStack) - 1)
         /\ decisionStack' = decisionStack
         /\ i' = i + 1
    ELSE /\ Branch(St, Seg) = GramBranch(SegGram(Seg))
         /\ Branch(St, Seg) # "skip"
         /\ Len(nodes') = Len(nodes) + 1
         /\ i' = i + 1

\* C21: a segment whose code ends in a closing brace closes the open function
\* context and nothing else: with body nodes it makes one footer Process node,
\* one edge from the last body node to it, and the footer is the cursor;
\* without body nodes it makes no node and no edge and leaves the cursor; the
\* branch index is reset either way. With no function context open the segment
\* goes through the grammar and makes a node like any statement.
C21_BraceClosesFunction == [][AtBrace => BraceStep]_vars

\* a function with body nodes has just been closed while a branch was current:
\* the footer is the cursor and the branch index is reset
C21_Witness ==
  /\ text = BranchInFun
  /\ i = 4
  /\ funStack = <<>>
  /\ lastExecutableNode = Len(nodes)
  /\ Includes(nodes[Len(nodes)].meta, "fun-footer-of=")
  /\ currentBranchIndex = Null
  /\ decisionStack # <<>>

\* ------------------------------------------------------------- C22
\* a statement is handled with no decision and no function context open: the
\* edges into the node it makes are those of wireSequential
AtPlainStatement ==
  /\ pc = "loop" /\ i < Len(segments)
  /\ decisionStack = <<>> /\ funStack = <<>>
  /\ Branch(St, Seg) \in {"bare", "io", "dec", "statement"}

\* the positions of the nodes a step wires into the node it makes
NewSourcePositions ==
  {k \in 1..Len(nodes') :
     \E j \in (Len(edges) + 1)..Len(edges') :
       /\ edges'[j].to = nodes'[Len(nodes) + 1].id
       /\ edges'[j].from = nodes'[k].id}

\* C22: the source of an edge added by wireSequential is neither a Decision
\* node nor a node tagged loop-back or forward-jump.
C22_NoTailAsPredecessor ==
  [][AtPlainStatement =>
       \A k \in NewSourcePositions :
         /\ nodes'[k].kind # "Decision"
         /\ ~isLoopOrNextMeta(nodes'[k].meta)]_vars

\* ------------------------------------------------------------- C23
\* the Connectors on the smallest physical line above the line of the node at p
NearestConnectors(nodeList, p) ==
  {k \in KindPositions(nodeList, "Connector") :
     /\ nodeList[k].line > nodeList[p].line
     /\ \A j \in KindPositions(nodeList, "Connector") :
          nodeList[j].line > nodeList[p].line
            => nodeList[k].line <= nodeList[j].line}

\* the positions of the targets of the edges that lead from the node at p and
\* are in the edge list after but not before
AddedTargets(nodeList, before, after, p) ==
  {k \in 1..Len(nodeList) :
     \E e \in (Len(before) + 1)..Len(after) :
       after[e].from = nodeList[p].id /\ after[e].to = nodeList[k].id}

\* the forward-jump nodes of S are resolved in R
JumpsResolved(S, R) ==
  /\ R.nodes = S.nodes
  /\ SubSeq(R.edges, 1, Len(S.edges)) = S.edges
  /\ \A q \in 1..Len(S.pendingNextNodes) :
       /\ AddedTargets(S.nodes, S.edges, R.edges, S.pendingNextNodes[q])
            \subseteq NearestConnectors(S.nodes, S.pendingNextNodes[q])
       /\ NearestConnectors(S.nodes, S.pendingNextNodes[q]) # {} =>
            \E k \in NearestConnectors(S.nodes, S.pendingNextNodes[q]) :
              hasEdgeAnyLabel(R.edges, S.nodes[S.pendingNextNodes[q]].id,
                              S.nodes[k].id)

\* every node made from a segment with the forward-jump marker is pending
MarkedArePending ==
  \A k \in 1..Len(nodes) :
    Includes(nodes[k].meta, "inline-next") => InSeq(pendingNextNodes, k)

\* C23: when the segments are exhausted, the resolution of the forward-jump
\* nodes adds for each of them an edge to a Connector on the smallest later
\* physical line, unless it is there already, and no other edge; it adds none
\* when no Connector lies on a later line, so never one to a Connector on the
\* node's own line. The returned graph holds these edges.
C23_JumpToNearestConnector ==
  /\ MarkedArePending
  /\ (pc = "loop" /\ i = Len(segments)) =>
       JumpsResolved(St, ResolvePendingNext(St, pendingNextNodes))
  /\ pc = "done" =>
       \A q \in 1..Len(pendingNextNodes) :
         NearestConnectors(nodes, pendingNextNodes[q]) # {} =>
           \E k \in NearestConnectors(nodes, pendingNextNodes[q]) :
             hasEdgeAnyLabel(edges, nodes[pendingNextNodes[q]].id, nodes[k].id)

\* the Connectors made after the node at p on its own physical line
SameLineConnectors(nodeList, p) ==
  {k \in KindPositions(nodeList, "Connector") :
     k > p /\ nodeList[k].line = nodeList[p].line}

\* C23 as stated: besides the above, in the returned graph no forward-jump
\* node has an edge to a Connector made after it on its own physical line.
C23_NeverSameLine ==
  /\ C23_JumpToNearestConnector
  /\ pc = "done" =>
       \A q \in 1..Len(pendingNextNodes) :
         \A k \in SameLineConnectors(nodes, pendingNextNodes[q]) :
           ~hasEdgeAnyLabel(edges, nodes[pendingNextNodes[q]].id, nodes[k].id)

\* a returned graph with a forward-jump node and two Connectors on later
\* lines, the nearer of which it has an edge to
C23_Witness ==
  /\ pc = "done"
  /\ \E q \in 1..Len(pendingNextNodes) :
       \E k \in NearestConnectors(nodes, pendingNextNodes[q]) :
         /\ hasEdgeAnyLabel(edges, nodes[pendingNextNodes[q]].id, nodes[k].id)
         /\ \E j \in KindPositions(nodes, "Connector") :
              nodes[j].line > nodes[k].line

\* ------------------------------------------------------------- C24
RECURSIVE FirstKeys(_, _, _, _)
\* the keys at the head of a token list when each category is filled once, by
\* its first token: k tokens are taken so far
FirstKeys(tokens, k, speckey, nodekey) ==
  IF k < Len(tokens) /\ speckey = ""
       /\ normalizeIvxToken(tokens[k + 1]) \in SPEC_KEYS
    THEN FirstKeys(tokens, k + 1, normalizeIvxToken(tokens[k + 1]), nodekey)
  ELSE IF k < Len(tokens) /\ nodekey = ""
       /\ normalizeIvxToken(tokens[k + 1]) \in NODE_KEYS
    THEN FirstKeys(tokens, k + 1, speckey, normalizeIvxToken(tokens[k + 1]))
  ELSE GramRest(tokens, k, speckey, nodekey)

\* the segment handled next has a grammar and is no collapsed function header
AtGrammar ==
  /\ pc = "loop" /\ i < Len(segments)
  /\ ~SegGram(Seg).none
  /\ ~StartsWith(Trim(Seg.code), "fun!")
  /\ ~StartsWith(Trim(Seg.code), "@fun!")

\* C24: SegGram takes at most one spec-key and at most one node-key from the
\* head of a segment, the first of each category; a second token of a category
\* is no key and stays in the label text.
C24_FirstKeyOfCategory ==
  AtGrammar => SegGram(Seg) = FirstKeys(SplitWS(Trim(Seg.code), ""), 0, "", "")

\* ------------------------------------------------------------- C25
\* the segment handled next has no code but a comment
AtCommentOnly ==
  /\ pc = "loop" /\ i < Len(segments)
  /\ Trim(Seg.code) = "" /\ Trim(Seg.comment) # ""

\* the segment handled next has no code and no comment, or only backslashes
AtBlank ==
  /\ pc = "loop" /\ i < Len(segments)
  /\ \/ Trim(Seg.code) = "" /\ Trim(Seg.comment) = ""
     \/ Trim(Seg.code) # "" /\ OnlyBackslashes(Trim(Seg.code))

\* everything but the node list stays as it is
KeepsAllButNodes ==
  /\ i' = i + 1
  /\ UNCHANGED <<edges, gbEndNodeId, nextId, lastExecutableNode,
                 lastConnectorLikeNode, pendingNextNodes, lastNode, endNodeId,
                 currentBranchIndex, decisionStack, funStack, returned>>

\* the comment goes to the meta of the node made last, after a blank if the
\* meta is not empty
CommentAppended ==
  /\ lastNode = Len(nodes)
  /\ nodes' = [nodes EXCEPT ![Len(nodes)].meta =
                 (IF @ # "" THEN @ \o " " ELSE "") \o Trim(Seg.comment)]

\* C25: a comment-only segment changes nothing but the meta of the node made
\* last, to which the comment is appended; a segment without code, or with
\* backslashes only, changes nothing at all.
C25_CommentAndBlankFrame ==
  [][/\ AtCommentOnly => (KeepsAllButNodes /\ CommentAppended)
     /\ AtBlank => (KeepsAllButNodes /\ nodes' = nodes)]_vars

\* a comment has been put on an End node while the cursor is elsewhere, and a
\* backslash segment has been handled after it
C25_Witness ==
  /\ i = 3
  /\ Len(nodes) = 2
  /\ nodes[2].kind = "End"
  /\ Includes(nodes[2].meta, "note")
  /\ lastExecutableNode # 2
  /\ OnlyBackslashes(Trim(segments[3].code))
  /\ Trim(segments[3].code) # ""

\* ------------------------------------------------------------- C26
\* the segment handled next is a branch-continue segment that makes a
\* Process, Input or Output node
AtBranchContinue ==
  /\ pc = "loop" /\ i < Len(segments)
  /\ Branch(St, Seg) \in {"bare", "io", "statement"}
  /\ SegGram(Seg).speckey = "then"

\* the stack and branch index the attachment is tried on: the bare handler
\* pops first, handleExecutableNode does not
AttachState ==
  IF Branch(St, Seg) = "bare" THEN popObsoleteDecisions(St, Seg, "then") ELSE St

\* the branch a branch-continue segment continues
ContinuedBranch(ctx, branchIndex) ==
  IF branchIndex # Null THEN branchIndex ELSE Len(ctx.branches) - 1

\* the sources of the edges into the new node besides the branch tail: the
\* running tail of an open function context
FunSources ==
  IF funStack # <<>> THEN TailSources(nodes, Last(funStack)) ELSE {}

\* the new node is attached to branch b of the context at depth d
ContinuesBranch(ctx, d, b) ==
  /\ MapHas(ctx.tails, b)
  /\ nodes[MapGet(ctx.tails, b)].id \in NewSources
  /\ NewSources \subseteq {nodes[MapGet(ctx.tails, b)].id} \cup FunSources
  /\ Len(decisionStack') = d
  /\ decisionStack'[d] = [ctx EXCEPT !.tails = MapSet(@, b, Len(nodes) + 1),
                                     !.hasExplicitSpec = TRUE]
  /\ lastExecutableNode' = Len(nodes) + 1
  /\ currentBranchIndex' = b

\* the new node is not attached and the branch index is cleared
FallsBack(A) ==
  /\ decisionStack' = A.decisionStack
  /\ currentBranchIndex' = Null

ThenStep(A) ==
  (A.decisionStack # <<>> /\ inDecisionRange(Last(A.decisionStack), Seg)) =>
    IF Last(A.decisionStack).branches # <<>>
      THEN ContinuesBranch(Last(A.decisionStack), Len(A.decisionStack),
             ContinuedBranch(Last(A.decisionStack), A.currentBranchIndex))
      ELSE FallsBack(A)

StepCap == 40

RECURSIVE ReachSteps_Revisit(_, _, _, _, _, _)
\* the while loop of canReachFeeder without its visited set, cut off past
\* StepCap iterations
ReachSteps_Revisit(stack, visited, startId, feederIds, succs, n) ==
  IF stack = <<>> \/ n > StepCap THEN n
  ELSE IF Last(stack) # startId /\ Last(stack) \in feederIds THEN n + 1
  ELSE ReachSteps_Revisit(
         SubSeq(stack, 1, Len(stack) - 1) \o succs[Last(stack)],
         visited, startId, feederIds, succs, n + 1)

RECURSIVE ReachSteps(_, _, _, _, _, _)
\* The while loop of canReachFeeder, counting its iterations: n is the
\* number of ids popped so far.
ReachSteps(stack, visited, startId, feederIds, succs, n) ==
  IF stack = <<>> THEN n
  ELSE IF Last(stack) \in visited
    THEN ReachSteps(SubSeq(stack, 1, Len(stack) - 1), visited, startId,
                    feederIds, succs, n + 1)
  ELSE IF Last(stack) # startId /\ Last(stack) \in feederIds THEN n + 1
  ELSE ReachSteps(
         SubSeq(stack, 1, Len(stack) - 1)
           \o Unvisited(succs[Last(stack)], visited \cup {Last(stack)}),
         visited \cup {Last(stack)}, startId, feederIds, succs, n + 1)

\* the edges between the candidates of a window
WindowEdges(edgeList, faninIds) ==
  {k \in 1..Len(edgeList) :
     edgeList[k].from \in faninIds /\ edgeList[k].to \in faninIds}

\* every walk of canReachFeeder in the window, from any candidate and for any
\* set of feeders, pops at most one id per edge of the window, and the start
WalksAreBounded(edgeList, faninIds) ==
  \A startId \in faninIds : \A feederIds \in SUBSET faninIds :
    ReachSteps(<<startId>>, {}, startId, feederIds,
               SuccsInWindow(edgeList, faninIds), 0)
      <= Cardinality(WindowEdges(edgeList, faninIds)) + 1

\* a walk between the candidates of the window leads from a candidate back
\* to itself
WindowHasCycle(edgeList, faninIds) ==
  \E id \in faninIds : Reaches(edgeList, faninIds, id, id)

\* the pop loop removes contexts from the top only, at most as many as the
\* stack holds
PopsAreBounded ==
  \A d \in ProbeIndents : \A speckey \in ProbeSpecKeys :
    \E k \in 0..Len(decisionStack) :
      popObsoleteDecisions(St, [indent |-> d], speckey).decisionStack
        = SubSeq(decisionStack, 1, k)

\* a step of the parse takes the next segment, or returns the graph when no
\* segment is left
Advances ==
  (pc = "loop" /\ text' = text) =>
     \/ i < Len(segments) /\ i' = i + 1 /\ pc' = "loop"
     \/ i = Len(segments) /\ pc' = "done"

\* C27: computeConnectorFanin terminates on every reachable node and edge
\* set, also when the edges between the window candidates form a cycle: every
\* walk of canReachFeeder pops at most one id per window edge and one for the
\* start. The pop loop of popObsoleteDecisions removes at most the contexts
\* the stack holds. Every segment is dispatched to a handler, every handler
\* step moves to the next segment, and after the last one the parse returns.
C27_LoopsTerminate ==
  [][/\ AtConnector =>
          WalksAreBounded(NextFanin.s.edges, IdSet(NextFanin.ids))
     /\ PopsAreBounded
     /\ (pc = "loop" /\ i < Len(segments)) => Branch(St, Seg) \in LoopBranches
     /\ Advances]_vars

\* a connector is about to be handled whose window holds candidates wired
\* to each other in a cycle
C27_Witness ==
  /\ AtConnector
  /\ WindowHasCycle(NextFanin.s.edges, IdSet(NextFanin.ids))

\* ------------------------------------------------------------- C28
\* the edges of an edge list that leave and enter the same node
SelfLoops(edgeList) ==
  {k \in 1..Len(edgeList) : edgeList[k].from = edgeList[k].to}

\* C28: no edge from a node to itself is ever inserted: neither the edge list
\* being built nor a returned graph holds an edge whose from equals its to.
C28_NoSelfLoop ==
  /\ SelfLoops(edges) = {}
  /\ \A g \in Graphs : SelfLoops(g.edges) = {}

\* ------------------------------------------------------------- C29
\* the last node in creation order that is not an End node
LastNonEnd(nodeList) ==
  nodeList[CHOOSE k \in 1..Len(nodeList) :
             /\ nodeList[k].kind # "End"
             /\ \A j \in (k + 1)..Len(nodeList) : nodeList[j].kind = "End"]

\* the ids of the nodes with an edge into the node id
SourcesOf(edgeList, id) ==
  {edgeList[k].from : k \in {e \in 1..Len(edgeList) : edgeList[e].to = id}}

StartDegrees(g) ==
  /\ OutDegree(g.edges, g.startNodeId) = 1
  /\ InDegree(g.edges, g.startNodeId) = 0

SynthesizedEndDegrees(g) ==
  /\ InDegree(g.edges, g.endNodeId) = 1
  /\ SourcesOf(g.edges, g.endNodeId) = {LastNonEnd(g.nodes).id}
  /\ OutDegree(g.edges, g.endNodeId) = 0

NoMessageAbout(g, id) ==
  \A dir \in {"inputs", "outputs"} :
    MessagesAbout(validNodeIO(g.nodes, g.edges), id, dir) = {}

\* C29: in every returned graph the Start node has exactly one outgoing edge
\* and no incoming edge; the End node made at finalization has exactly one
\* incoming edge, from the last node in creation order that is not an End
\* node, and no outgoing edge; validNodeIO has no message about either node.
C29_SentinelDegrees ==
  \A g \in Graphs :
    /\ StartDegrees(g)
    /\ SynthesizedEndDegrees(g)
    /\ NoMessageAbout(g, g.startNodeId)
    /\ NoMessageAbout(g, g.endNodeId)

\* a graph has been returned whose last statement is followed by an explicit
\* End node: the End made at finalization hangs on the statement
C29_Witness ==
  \E g \in Graphs :
    /\ Len(g.nodes) >= 4
    /\ g.nodes[Len(g.nodes) - 1].kind = "End"
    /\ LastNonEnd(g.nodes).kind = "Process"
    /\ g.nodes[Len(g.nodes)].id = g.endNodeId
    /\ SourcesOf(g.edges, g.endNodeId) = {LastNonEnd(g.nodes).id}
    /\ OutDegree(g.edges, g.startNodeId) = 1

\* ------------------------------------------------------------- C30
\* the segment handled next is an end segment
AtEnd == pc = "loop" /\ i < Len(segments) /\ Branch(St, Seg) = "end"

\* the end segment is branch-marked and in range of the top decision context
EndIsAttached ==
  /\ decisionStack # <<>>
  /\ inDecisionRange(Last(decisionStack), Seg)
  /\ isElseOrThen(SegGram(Seg).speckey)

\* the explicit End nodes of a node list
ExplicitEnds(nodeList) ==
  {k \in KindPositions(nodeList, "End") :
     Includes(nodeList[k].meta, "explicit end")}

\* no edge into an End node that exists already is added
EndInputsKept ==
  \A k \in KindPositions(nodes, "End") :
    SourcesOf(edges', nodes[k].id) = SourcesOf(edges, nodes[k].id)

\* the End node the step makes has no incoming edge and no function tag
NewEndIsBare ==
  /\ nodes'[Len(nodes) + 1].kind = "End"
  /\ InDegree(edges', nodes'[Len(nodes) + 1].id) = 0
  /\ ~Includes(nodes'[Len(nodes) + 1].meta, "fun-body-of=")

\* validNodeIO reports every explicit End node of the returned graph that
\* has no incoming edge and no function tag
BareEndsReported ==
  pc' = "done" =>
    \A k \in ExplicitEnds(nodes') :
      (InDegree(edges', nodes'[k].id) = 0
         /\ ~Includes(nodes'[k].meta, "fun-body-of="))
        => MessagesAbout(validNodeIO(nodes', edges'), nodes'[k].id, "inputs") # {}

\* C30: an explicit End node gets an incoming edge only in its own handler
\* step, and only when its segment is branch-marked and in range of an open
\* decision, or a function is open; the End node of an end segment handled
\* otherwise has no incoming edge after the step, no later step adds one, and
\* validNodeIO reports the node in the returned graph.
C30_PlainEndHasNoInput ==
  [][/\ (AtEnd /\ ~EndIsAttached /\ funStack = <<>>) => NewEndIsBare
     /\ EndInputsKept
     /\ BareEndsReported]_vars

\* a graph has been returned with an explicit End node that no edge enters,
\* followed by other nodes, and validNodeIO reports it
C30_Witness ==
  /\ pc = "done"
  /\ \E k \in ExplicitEnds(nodes) :
       /\ k < Len(nodes) - 1
       /\ nodes[k + 1].kind = "Process"
       /\ InDegree(edges, nodes[k].id) = 0
       /\ MessagesAbout(validNodeIO(nodes, edges), nodes[k].id, "inputs") # {}

\* ------------------------------------------------------------- C31
\* the cutoffs of the contexts of a stack, bottom first
Cutoffs(stack) == [k \in 1..Len(stack) |-> DecisionCutoff(stack[k])]

\* the cutoffs do not decrease from the bottom of the stack to its top
CutoffsAscend(stack) ==
  \A k \in 1..(Len(stack) - 1) :
    DecisionCutoff(stack[k]) <= DecisionCutoff(stack[k + 1])

\* a pinned branch indent is at least the indent of its header
PinsNotBelowHeader(stack) ==
  \A k \in 1..Len(stack) :
    stack[k].branchIndent # Null =>
      stack[k].branchIndent >= stack[k].header.indent

\* the indent d is at least the cutoff of every context of the stack
ClearsEveryCutoff(stack, d) ==
  \A k \in 1..Len(stack) : d >= DecisionCutoff(stack[k])

\* C31: in every state of the parse the cutoffs of the contexts on the
\* decision stack (the pinned branch indent if set, else the header's indent)
\* do not decrease from bottom to top, and a pinned branch indent is never
\* smaller than its header's indent; after popObsoleteDecisions has run for a
\* segment of any indent and branch marker, the segment's indent is at least
\* the cutoff of every context left on the stack.
C31_CutoffsAscend ==
  /\ CutoffsAscend(decisionStack)
  /\ PinsNotBelowHeader(decisionStack)
  /\ \A d \in ProbeIndents : \A speckey \in ProbeSpecKeys :
       ClearsEveryCutoff(
         popObsoleteDecisions(St, [indent |-> d], speckey).decisionStack, d)

\* two contexts are open, both with a pinned branch indent above their
\* header's indent, the upper one with the larger cutoff
C31_Witness ==
  /\ Len(decisionStack) = 2
  /\ decisionStack[1].branchIndent # Null
  /\ decisionStack[2].branchIndent # Null
  /\ decisionStack[1].branchIndent > decisionStack[1].header.indent
  /\ decisionStack[2].branchIndent > decisionStack[2].header.indent
  /\ DecisionCutoff(decisionStack[1]) < DecisionCutoff(decisionStack[2])
====
